---- MODULE Spec2Model ----
(***************************************************************************)
(* DSGS protocol servers: the HTTP transport (McpAdapter.ts, "transport A") *)
(* and the stdio transport (McpStdioServer.ts, "transport B"), their method *)
(* dispatch, and the constraint generator they call; and the core library   *)
(* called directly: the TCC builder (TccGenerator.ts, core/types/TCC) and   *)
(* the template store (matchTemplates).                                     *)
(*                                                                          *)
(* JavaScript values are tagged records ([k |-> "undefined"], "null",       *)
(* "string", "number", "object", "array", "promise"), so that a missing     *)
(* property, a null and an empty string stay distinct.  Wire text is a      *)
(* sequence of symbols: a newline, a blank, or the text of one JSON         *)
(* document.                                                                *)
(***************************************************************************)
EXTENDS Integers, Sequences, FiniteSets, TLC

VARIABLES
  transport,   \* which server this process runs: "A" (http) or "B" (stdio)
  pool,        \* the JSON documents the client of this run sends
  conns,       \* transport A: per connection, the request/response cycle
  buffer,      \* transport B: `buffer` of initializeMcpStdioServer
  nread,       \* transport B: number of symbols read from stdin so far
  received,    \* transport B: the input stdin has delivered, where it is recorded
  tasks,       \* transport B: one entry per handleMcpRequest call
  stdout,      \* transport B: what process.stdout.write has emitted
  rejections,  \* promise rejections no handler observed
  stdin,       \* transport B: "open", or the event that closed it
  exit,        \* transport B: Running, or how the process exited
  capsule,     \* core library: the TCC its caller holds after the last call
  call,        \* core library: the last library call and how it settled
  disk         \* core library: what fs finds at each path

vars == <<transport, pool, conns, buffer, nread, received, tasks, stdout, rejections,
          stdin, exit, capsule, call, disk>>

----------------------------------------------------------------------------
(* Bounds of the model *)

\* number of concurrent connections on transport A
NumConns == 1
\* longest request body on transport A, in symbols
MaxBody == 2
\* symbols read from stdin on transport B
MaxInput == 4
\* longest chunk of one 'data' event, in symbols
MaxChunkLen == 3
\* number of overlapping connections on transport A
NumOverlap == 2
\* goals are tried this many bytes to either side of the size limit
MaxSlack == 30
\* clock readings a library call can see
MaxClock == 2
\* refreshes of one TCC by updateTCCWithSystemState
MaxUpdates == 2
\* longest template directory, in entries
MaxFiles == 2
\* longest relevantConstraints list handed to generateConstraints
MaxRelevant == 2

----------------------------------------------------------------------------
(* JavaScript values *)

Undefined == [k |-> "undefined"]
Null == [k |-> "null"]
Num == [k |-> "number"]
Str(s) == [k |-> "string", s |-> s]
List(items) == [k |-> "array", items |-> items]
EmptyObject == [k |-> "object"]

\* v.field throws a TypeError exactly when v is null or undefined
Throws(v) == v.k \in {"null", "undefined"}

\* v.field for a v that is neither null nor undefined: the property when v is
\* an object that has it, undefined otherwise (a number has no such property)
Get(v, field) ==
  IF v.k = "object" /\ field \in DOMAIN v THEN v[field] ELSE Undefined

\* !v for the values a path parameter can take
Falsy(v) == v.k \in {"undefined", "null"} \/ v = Str("")

----------------------------------------------------------------------------
(* Wire text and JSON *)

NL == [t |-> "nl"]
SP == [t |-> "sp"]
Doc(v) == [t |-> "doc", v |-> v]

IsSpace(c) == c.t \in {"nl", "sp"}

RECURSIVE TrimLeft(_)
TrimLeft(s) ==
  IF s # <<>> /\ IsSpace(Head(s)) THEN TrimLeft(Tail(s)) ELSE s

RECURSIVE TrimRight(_)
TrimRight(s) ==
  IF s # <<>> /\ IsSpace(s[Len(s)]) THEN TrimRight(SubSeq(s, 1, Len(s) - 1))
  ELSE s

\* String.prototype.trim
Trim(s) == TrimRight(TrimLeft(s))

\* A faulty variant of JSONparse: a parser that stops after the first
\* document and ignores what follows it
JSONparseFirst(text) ==
  LET t == TrimLeft(text) IN
  IF t # <<>> /\ t[1].t = "doc"
  THEN [ok |-> TRUE, value |-> t[1].v]
  ELSE [ok |-> FALSE, value |-> Undefined]

\* JSON.parse: surrounding white space is skipped; exactly one document must
\* remain.  The empty text, and a document followed by more text, are syntax
\* errors.
JSONparse(text) ==
  LET t == Trim(text) IN
  IF Len(t) = 1 /\ t[1].t = "doc"
  THEN [ok |-> TRUE, value |-> t[1].v]
  ELSE [ok |-> FALSE, value |-> Undefined]

\* JSON.stringify of a value inside an envelope: a Promise has no enumerable
\* own properties and is written as {}
StringifyValue(v) == IF v.k = "promise" THEN EmptyObject ELSE v

\* JSON.stringify of the result object
StringifyResult(r) ==
  IF r.k = "object" THEN [f \in DOMAIN r |-> IF f = "k" THEN r[f] ELSE StringifyValue(r[f])]
  ELSE r

\* JSON.stringify of a response envelope: a property whose value is undefined
\* is left out
JSONstringify(response) ==
  LET kept == {f \in DOMAIN response : response[f] # Undefined} IN
  [f \in kept |-> IF f = "result" THEN StringifyResult(response[f])
                  ELSE response[f]]

----------------------------------------------------------------------------
(* The specification service: SpecificationManager.ts *)

\* A file as fs.readFile finds it: missing, or holding `data`; `valid` is the
\* verdict of validateSpecification on the document the data denotes (the
\* schema is outside the model)
Missing == [k |-> "missing"]
File(data, valid) == [k |-> "file", data |-> data, valid |-> valid]

\* Error messages are kept as the sequence of the pieces a template literal
\* concatenates
LoadFailure(path, cause) ==
  [ok |-> FALSE, value |-> Undefined,
   message |-> <<"Failed to load specification from ", path, ": ", cause>>]

\* A faulty variant of loadSpecification: the verdict of the validation is
\* not looked at
loadSpecificationUnvalidated(path, file) ==
  IF file.k = "missing" THEN LoadFailure(path, "ENOENT: no such file or directory")
  ELSE LET parsed == JSONparse(file.data) IN
       IF ~parsed.ok THEN LoadFailure(path, "Unexpected token in JSON")
       ELSE [ok |-> TRUE, value |-> parsed.value, message |-> <<>>]

loadSpecification(path, file) ==
  IF file.k = "missing" THEN LoadFailure(path, "ENOENT: no such file or directory")
  ELSE LET parsed == JSONparse(file.data) IN
       IF ~parsed.ok THEN LoadFailure(path, "Unexpected token in JSON")
       ELSE IF ~file.valid THEN LoadFailure(path, "Invalid specification: ")
       ELSE [ok |-> TRUE, value |-> parsed.value, message |-> <<>>]

\* JSON.stringify(spec, null, 2) of a document: a property whose value is
\* undefined is left out, an undefined array element is written as null
RECURSIVE Stringify(_)
Stringify(v) ==
  CASE v.k = "object" ->
         [f \in {g \in DOMAIN v : g = "k" \/ v[g] # Undefined} |->
            IF f = "k" THEN v[f] ELSE Stringify(v[f])]
    [] v.k = "array" ->
         List([i \in 1..Len(v.items) |->
                 IF v.items[i] = Undefined THEN Null ELSE Stringify(v.items[i])])
    [] OTHER -> v

\* the paths of the model: the second is in a directory fs may not write to
Paths == {"spec.json", "/root/protected/spec.json"}
Writable(path) == path = "spec.json"
NoDisk == [path \in Paths |-> Missing]

\* saveSpecification: whether its promise fulfils, and the file then found at
\* `path`.  JSON.stringify(undefined) is undefined, which fs.writeFile
\* refuses with a TypeError.  `valid` is the verdict validateSpecification
\* has for the document written.
saveSpecification(spec, path, valid) ==
  IF spec = Undefined
  THEN [ok |-> FALSE, file |-> Missing,
        message |-> <<"Failed to save specification to ", path, ": ",
                      "The \"data\" argument must be of type string">>]
  ELSE IF ~Writable(path)
  THEN [ok |-> FALSE, file |-> Missing,
        message |-> <<"Failed to save specification to ", path, ": ",
                      "EACCES: permission denied">>]
  ELSE [ok |-> TRUE, file |-> File(<<Doc(Stringify(spec))>>, valid),
        message |-> <<>>]

----------------------------------------------------------------------------
(* The constraint generator: generateConstraints and matchTemplates *)

Template(id, category, applicableTasks, severity) ==
  [k |-> "object", id |-> Str(id), name |-> Str(id), category |-> Str(category),
   description |-> Str("d"), rule |-> Str("r"),
   applicableTasks |-> applicableTasks, severity |-> Str(severity)]

\* a directory entry: its name ends with .json or not, and its text
Entry(json, data) == [json |-> json, data |-> data]
\* a template directory: readable by fs.readdir or not
Dir(readable, files) == [readable |-> readable, files |-> files]

\* Array.prototype.includes
Includes(list, v) == \E i \in 1..Len(list.items) : list.items[i] = v

\* The inner loop of matchTemplates over one directory's entries.  A parse
\* error, or a record whose applicableTasks is no array, throws into the
\* directory's catch, which abandons the rest of that directory; what was
\* pushed before stays.
RECURSIVE ScanDir(_, _, _)
ScanDir(files, taskType, templates) ==
  IF files = <<>> THEN templates
  ELSE LET file == Head(files) IN
    IF ~file.json THEN ScanDir(Tail(files), taskType, templates)
    ELSE LET parsed == JSONparse(file.data) IN
      IF ~parsed.ok THEN templates
      ELSE LET template == parsed.value IN
        IF Throws(template) THEN templates
        ELSE IF Get(template, "applicableTasks").k # "array" THEN templates
        ELSE IF \/ Includes(template.applicableTasks, taskType)
                \/ Includes(template.applicableTasks, Str("ALL"))
             THEN ScanDir(Tail(files), taskType, Append(templates, template))
             ELSE ScanDir(Tail(files), taskType, templates)

\* A faulty variant of ScanDirs: one try around the whole loop, so the first
\* unreadable directory ends the scan
RECURSIVE ScanDirsAbort(_, _, _)
ScanDirsAbort(templateDirs, taskType, templates) ==
  IF templateDirs = <<>> THEN templates
  ELSE LET dir == Head(templateDirs) IN
    IF dir.readable
    THEN ScanDirsAbort(Tail(templateDirs), taskType,
                       ScanDir(dir.files, taskType, templates))
    ELSE templates

RECURSIVE ScanDirs(_, _, _)
ScanDirs(templateDirs, taskType, templates) ==
  IF templateDirs = <<>> THEN templates
  ELSE LET dir == Head(templateDirs) IN
    ScanDirs(Tail(templateDirs), taskType,
             IF dir.readable THEN ScanDir(dir.files, taskType, templates)
             ELSE templates)

\* store: the three template directories security, performance, architecture
matchTemplates(taskType, store) == ScanDirs(store, taskType, <<>>)

TemplateToConstraint(template) ==
  [k |-> "object", id |-> Get(template, "id"), name |-> Get(template, "name"),
   category |-> Get(template, "category"),
   description |-> Get(template, "description"),
   rule |-> Get(template, "rule"),
   applicableTasks |-> Get(template, "applicableTasks"),
   severity |-> Get(template, "severity")]

\* A faulty variant of ContextConstraint: the synthesized constraint takes
\* the severity of an enforced rule
ContextConstraintAsError(id, taskType) ==
  [k |-> "object", id |-> id, name |-> id, category |-> Str("OTHER"),
   description |-> Str("Constraint from task context"),
   rule |-> [k |-> "concat", parts |-> <<Str("context."), id>>],
   applicableTasks |-> List(<<taskType>>), severity |-> Str("ERROR")]

ContextConstraint(id, taskType) ==
  [k |-> "object", id |-> id, name |-> id, category |-> Str("OTHER"),
   description |-> Str("Constraint from task context"),
   rule |-> [k |-> "concat", parts |-> <<Str("context."), id>>],
   applicableTasks |-> List(<<taskType>>), severity |-> Str("WARNING")]

GenerateFailure(cause) ==
  [ok |-> FALSE, value |-> Undefined,
   message |-> <<"Failed to generate constraints: ", cause>>]

\* How the promise generateConstraints(tcc) returns settles: an async function
\* never throws to its caller, a TypeError inside it rejects the promise
generateConstraints(tcc, store) ==
  IF Throws(tcc) THEN GenerateFailure("Cannot read properties of null")
  ELSE
    LET taskType == Get(tcc, "taskType")
        templates == matchTemplates(taskType, store)
        constraints == [i \in 1..Len(templates) |-> TemplateToConstraint(templates[i])]
        context == Get(tcc, "context")
    IN
    IF Throws(context) THEN GenerateFailure("Cannot read properties of undefined")
    ELSE LET relevant == Get(context, "relevantConstraints") IN
      IF relevant.k # "array" THEN GenerateFailure("Cannot read properties of undefined")
      ELSE [ok |-> TRUE, message |-> <<>>,
            value |-> List(constraints \o
                       [i \in 1..Len(relevant.items) |->
                          ContextConstraint(relevant.items[i], taskType)])]

----------------------------------------------------------------------------
(* The TCC data model and the TCC builder: core/types/TCC, TccGenerator.ts *)

\* the size a TCC must stay under, in bytes
SizeLimit == 10240

Number(n) == [k |-> "number", n |-> n]
\* the string new Date().toISOString() returns at clock reading t
Time(t) == [k |-> "time", t |-> t]
\* a string made of the text s followed by `pad` more bytes
Padded(s, pad) == [k |-> "string", s |-> s, pad |-> pad]

\* UTF-8 length of a string's JSON text between its quotes
Bytes(v) == Len(v.s) + (IF "pad" \in DOMAIN v THEN v.pad ELSE 0)

RECURSIVE Digits(_)
Digits(n) == IF n < 10 THEN 1 ELSE 1 + Digits(n \div 10)

\* new Blob([JSON.stringify(v)]).size: the length of the JSON text of v.
\* A property whose value is undefined is left out; an ISO time is 24
\* characters long
RECURSIVE ByteLength(_), MembersLength(_, _), ItemsLength(_)
ByteLength(v) ==
  CASE v.k = "string" -> 2 + Bytes(v)
    [] v.k = "number" -> Digits(v.n)
    [] v.k = "time" -> 2 + 24
    [] v.k = "null" -> 4
    [] v.k = "array" ->
         2 + ItemsLength(v.items) + (IF v.items = <<>> THEN 0 ELSE Len(v.items) - 1)
    [] v.k = "object" ->
         LET keys == {f \in DOMAIN v \ {"k"} : v[f] # Undefined} IN
         2 + MembersLength(v, keys) + (IF keys = {} THEN 0 ELSE Cardinality(keys) - 1)
MembersLength(v, keys) ==
  IF keys = {} THEN 0
  ELSE LET f == CHOOSE g \in keys : TRUE IN
       (2 + Len(f)) + 1 + ByteLength(v[f]) + MembersLength(v, keys \ {f})
ItemsLength(items) ==
  IF items = <<>> THEN 0 ELSE ByteLength(Head(items)) + ItemsLength(Tail(items))

\* A faulty variant of validateTCCSize: the limit itself is accepted
validateTCCSizeInclusive(tcc) ==
  LET byteSize == ByteLength(tcc) IN
  [tcc |-> [tcc EXCEPT !.size = Number(byteSize)],
   byteSize |-> byteSize,
   valid |-> byteSize <= SizeLimit]

\* validateTCCSize: measures the TCC as it stands (its size property still
\* holding the previous value), stores the measure in size, and compares
validateTCCSize(tcc) ==
  LET byteSize == ByteLength(tcc) IN
  [tcc |-> [tcc EXCEPT !.size = Number(byteSize)],
   byteSize |-> byteSize,
   valid |-> byteSize < SizeLimit]

ResourceAvailability ==
  [k |-> "object", cpu |-> Number(50), memory |-> Number(50), network |-> Number(50)]

\* createTCC: the return value of validateTCCSize is dropped
createTCC(taskId, goal, taskType, now) ==
  LET tcc == [k |-> "object", taskId |-> taskId, goal |-> goal, taskType |-> taskType,
              context |->
                [k |-> "object",
                 relevantConstraints |-> List(<<>>),
                 systemState |->
                   [k |-> "object", loadLevel |-> Str("MED"),
                    dependencies |-> List(<<>>),
                    resourceAvailability |-> ResourceAvailability,
                    environment |-> Str("DEVELOPMENT")],
                 creationTime |-> Time(now),
                 source |-> Str("user-request"),
                 priority |-> Str("MEDIUM")],
              size |-> Number(0),
              version |-> Str("1.0")]
  IN validateTCCSize(tcc).tcc

\* String.prototype.toUpperCase on the task types of the model
ToUpperCase(s) ==
  CASE s = "financial" -> "FINANCIAL"
    [] s = "Api" -> "API"
    [] s = "custom" -> "CUSTOM"
    [] OTHER -> s

\* A faulty variant of TableConstraints: a switch without its default branch
TableConstraintsNoDefault(taskType) ==
  LET upper == ToUpperCase(taskType.s) IN
  CASE upper = "FINANCIAL" -> <<Str("SEC-002"), Str("SEC-003"), Str("PERF-002")>>
    [] upper = "AUTHENTICATION" -> <<Str("SEC-001"), Str("SEC-002")>>
    [] upper = "API" -> <<Str("PERF-001"), Str("PERF-002"), Str("ARCH-002")>>
    [] upper = "DATABASE" -> <<Str("PERF-001"), Str("ARCH-002")>>
    [] OTHER -> <<>>

\* the switch of extractRelevantConstraints
TableConstraints(taskType) ==
  LET upper == ToUpperCase(taskType.s) IN
  CASE upper = "FINANCIAL" -> <<Str("SEC-002"), Str("SEC-003"), Str("PERF-002")>>
    [] upper = "AUTHENTICATION" -> <<Str("SEC-001"), Str("SEC-002")>>
    [] upper = "API" -> <<Str("PERF-001"), Str("PERF-002"), Str("ARCH-002")>>
    [] upper = "DATABASE" -> <<Str("PERF-001"), Str("ARCH-002")>>
    [] OTHER -> <<Str("SEC-001")>>

\* A faulty variant of Unique: the list as it is, duplicates included
UniqueKeepAll(items, seen) == seen \o items

\* [...new Set(items)]: the first occurrence of each value, in order
RECURSIVE Unique(_, _)
Unique(items, seen) ==
  IF items = <<>> THEN seen
  ELSE Unique(Tail(items),
              IF \E i \in 1..Len(seen) : seen[i] = Head(items) THEN seen
              ELSE Append(seen, Head(items)))

\* v?.field
OptionalGet(v, field) == IF Throws(v) THEN Undefined ELSE Get(v, field)

GlobalSpecPath == "src/core/specification/bsl.schema.json"

\* A faulty variant of extractRelevantConstraints: the switch runs before
\* the load, so a failed load leaves the table's constraints in place
extractRelevantConstraintsTableFirst(tcc, file) ==
  LET loaded == loadSpecification(GlobalSpecPath, file)
      table == TableConstraints(tcc.taskType)
      extra == IF loaded.ok
               THEN OptionalGet(OptionalGet(OptionalGet(loaded.value, "metadata"),
                                            "taskConstraints"), tcc.taskType.s)
               ELSE Undefined
  IN
  IF extra.k = "array"
  THEN [tcc EXCEPT !.context.relevantConstraints =
                      List(Unique(table \o extra.items, <<>>))]
  ELSE [tcc EXCEPT !.context.relevantConstraints = List(Unique(table, <<>>))]

\* extractRelevantConstraints: the TCC after the call.  Whatever is thrown
\* inside (the load failing, a contribution that cannot be spread) is caught
\* and leaves relevantConstraints as createTCC set it: so is the TypeError of
\* toUpperCase on a taskType that is no string.  The contributions of the
\* modelled documents are arrays, numbers or absent.
extractRelevantConstraints(tcc, file) ==
  LET loaded == loadSpecification(GlobalSpecPath, file) IN
  IF ~loaded.ok THEN tcc
  ELSE IF tcc.taskType.k # "string" THEN tcc
  ELSE
    LET table == TableConstraints(tcc.taskType)
        extra == OptionalGet(OptionalGet(OptionalGet(loaded.value, "metadata"),
                                         "taskConstraints"), tcc.taskType.s)
    IN
    IF extra.k \in {"undefined", "null"}
    THEN [tcc EXCEPT !.context.relevantConstraints = List(Unique(table, <<>>))]
    ELSE IF extra.k = "array"
    THEN [tcc EXCEPT !.context.relevantConstraints =
                        List(Unique(table \o extra.items, <<>>))]
    ELSE tcc

\* generateTCC: how its promise settles; `built` is the TCC the call
\* constructed, `byteSize` what validateTCCSize measured on it
generateTCC(taskId, goal, taskType, source, priority, now, file) ==
  LET base == createTCC(taskId, goal, taskType, now)
      tagged == [base EXCEPT !.context.source = source,
                             !.context.priority = priority]
      extracted == extractRelevantConstraints(tagged, file)
      measured == validateTCCSize(extracted)
  IN
  IF ~measured.valid
  THEN [ok |-> FALSE, value |-> Undefined,
        message |-> <<"Failed to generate TCC: ", "TCC size exceeds limit: ",
                      ToString(measured.byteSize), " bytes">>,
        built |-> measured.tcc, byteSize |-> measured.byteSize]
  ELSE [ok |-> TRUE, value |-> measured.tcc, message |-> <<>>,
        built |-> measured.tcc, byteSize |-> measured.byteSize]

\* A faulty variant of SystemSnapshot: the dependencies are not refreshed
SystemSnapshotPartial(systemState) ==
  [f \in DOMAIN systemState \cup
         {"loadLevel", "resourceAvailability", "environment"} |->
     CASE f = "loadLevel" -> Str("MED")
       [] f = "resourceAvailability" -> ResourceAvailability
       [] f = "environment" -> Str("DEVELOPMENT")
       [] OTHER -> systemState[f]]

\* the four assignments to tcc.context.systemState: the placeholder snapshot
SystemSnapshot(systemState) ==
  [f \in DOMAIN systemState \cup
         {"loadLevel", "dependencies", "resourceAvailability", "environment"} |->
     CASE f = "loadLevel" -> Str("MED")
       [] f = "dependencies" -> List(<<Str("core-service"), Str("database")>>)
       [] f = "resourceAvailability" -> ResourceAvailability
       [] f = "environment" -> Str("DEVELOPMENT")
       [] OTHER -> systemState[f]]

\* updateTCCWithSystemState: `tcc` after the call and whether the body ran to
\* its end; an exception is caught and logged, so the promise always
\* fulfils.  Writing a property of null, of undefined or of a primitive
\* throws a TypeError.
updateTCCWithSystemState(tcc, now) ==
  LET context == OptionalGet(tcc, "context")
      systemState == OptionalGet(context, "systemState")
  IN
  IF tcc.k # "object" \/ context.k # "object" \/ systemState.k # "object"
  THEN [fulfilled |-> TRUE, updated |-> FALSE, tcc |-> tcc]
  ELSE
    LET state == SystemSnapshot(systemState)
        stamped == [f \in DOMAIN context \cup {"creationTime"} |->
                      CASE f = "systemState" -> state
                        [] f = "creationTime" -> Time(now)
                        [] OTHER -> context[f]]
        written == [f \in DOMAIN tcc \cup {"size"} |->
                      CASE f = "context" -> stamped
                        [] f = "size" -> Get(tcc, "size")
                        [] OTHER -> tcc[f]]
    IN [fulfilled |-> TRUE, updated |-> TRUE, tcc |-> validateTCCSize(written).tcc]

----------------------------------------------------------------------------
(* Envelopes and handler outcomes *)

ErrorResponse(code, message, id) ==
  [error |-> [code |-> code, message |-> message], id |-> id]
ResultResponse(result, id) == [result |-> result, id |-> id]

\* What one run of a handler, from where it starts or resumes to where it
\* returns, suspends or fails, comes to.  `calls` lists the handlers and
\* collaborators it invoked, in order; `sync` tells that nothing was awaited on
\* the way, so the caller goes on in the same turn.
Return(response, calls, sync) ==
  [k |-> "return", response |-> response, calls |-> calls, sync |-> sync,
   pc |-> "done"]
Await(pc, calls) ==
  [k |-> "await", response |-> Undefined, calls |-> calls, sync |-> FALSE,
   pc |-> pc]
Reject(calls) ==
  [k |-> "reject", response |-> Undefined, calls |-> calls, sync |-> TRUE,
   pc |-> "rejected"]

\* the promise of a call generateConstraints(tcc) that nobody awaits
Promise(settles) == [k |-> "promise", settles |-> settles]

PathText(v) == IF v.k = "string" THEN v.s ELSE "?"

----------------------------------------------------------------------------
(* Transport A's dispatcher: McpAdapter.ts *)

\* A faulty variant of handleGetSystemStatus: a status check that reports a
\* failure as an error envelope
handleGetSystemStatusFailing(request) ==
  ErrorResponse(-32603, <<"Internal error">>, Get(request, "id"))

handleGetSystemStatus(request) ==
  ResultResponse([k |-> "object", status |-> Str("running"),
                  version |-> Str("1.0.0"), uptime |-> Num,
                  timestamp |-> Str("now")],
                 Get(request, "id"))

handleGetEvolutionStage(request) ==
  ResultResponse([k |-> "object", currentStage |-> Str("MVP"),
                  description |-> Str("Minimum Viable Product - Core functionality implemented"),
                  capabilities |-> List(<<Str("Basic constraint generation"),
                                          Str("Task Context Capsule support"),
                                          Str("MCP integration"),
                                          Str("CLI interface")>>),
                  timestamp |-> Str("now")],
                 Get(request, "id"))

\* A faulty variant of Violations: a violation check that reports something
ViolationsReported == List(<<Str("SEC-001 violated")>>)

\* the stubbed violation check of handleCheckConstraints
Violations == List(<<>>)

\* handleCheckConstraints from its entry to the first await
handleCheckConstraints(request) ==
  LET params == Get(request, "params")
      id == Get(request, "id")
      calls == <<"handleCheckConstraints">>
  IN
  IF Throws(params)
  THEN Return(ErrorResponse(-32603, <<"Cannot destructure property 'tccPath'">>, id),
              calls, FALSE)
  ELSE IF Falsy(Get(params, "tccPath")) \/ Falsy(Get(params, "specPath"))
  THEN Return(ErrorResponse(-32602, <<"Missing required parameters", ": tccPath and specPath">>, id),
              calls, FALSE)
  ELSE Await("loadSpec", calls \o <<"loadSpecification(specPath)">>)

\* A faulty variant of handleCheckConstraintsSpec: the two load failures'
\* codes exchanged
handleCheckConstraintsSpecSwapped(request, loaded, calls) ==
  IF ~loaded.ok
  THEN Return(ErrorResponse(-32002, <<"Failed to load specification: ">> \o loaded.message,
                            Get(request, "id")),
              calls, FALSE)
  ELSE Await("loadTcc", calls \o <<"loadSpecification(tccPath)">>)

\* A faulty variant of handleCheckConstraintsSpec: the loaded document is
\* looked into, and a specification with another objective is refused
handleCheckConstraintsSpecReading(request, loaded, calls) ==
  IF ~loaded.ok \/ Get(loaded.value, "SOF") # Str("Maximize(UserValue)")
  THEN Return(ErrorResponse(-32001, <<"Failed to load specification: ">> \o loaded.message,
                            Get(request, "id")),
              calls, FALSE)
  ELSE Await("loadTcc", calls \o <<"loadSpecification(tccPath)">>)

\* ... resumed when loadSpecification(specPath) has settled as `loaded`
handleCheckConstraintsSpec(request, loaded, calls) ==
  IF ~loaded.ok
  THEN Return(ErrorResponse(-32001, <<"Failed to load specification: ">> \o loaded.message,
                            Get(request, "id")),
              calls, FALSE)
  ELSE Await("loadTcc", calls \o <<"loadSpecification(tccPath)">>)

\* ... resumed when loadSpecification(tccPath) has settled as `loaded`;
\* `generated` is how generateConstraints(tcc) will settle.  The call is not
\* awaited: `constraints` is the promise, and the try around the call sees no
\* exception.
handleCheckConstraintsTcc(request, loaded, generated, calls) ==
  IF ~loaded.ok
  THEN Return(ErrorResponse(-32002, <<"Failed to load task context capsule: ">> \o loaded.message,
                            Get(request, "id")),
              calls, FALSE)
  ELSE Return(ResultResponse([k |-> "object", constraints |-> Promise(generated),
                              violations |-> Violations,
                              timestamp |-> Str("now")],
                             Get(request, "id")),
              calls \o <<"generateConstraints">>, FALSE)

\* A faulty variant of handleMcpRequest: a switch without its default branch,
\* so that an unknown method falls into the last case
handleMcpRequestNoDefault(request) ==
  IF Throws(request) THEN Reject(<<>>)
  ELSE LET method == Get(request, "method") IN
    CASE method = Str("checkConstraints") -> handleCheckConstraints(request)
      [] method = Str("getSystemStatus") ->
           Return(handleGetSystemStatus(request), <<"handleGetSystemStatus">>, FALSE)
      [] OTHER ->
           Return(handleGetEvolutionStage(request), <<"handleGetEvolutionStage">>, FALSE)

\* handleMcpRequest from its entry to its first suspension.  For a request
\* that is null, request.method throws, the catch block's request.id throws
\* again, and the promise handleMcpRequest returned is rejected.
handleMcpRequest(request) ==
  IF Throws(request) THEN Reject(<<>>)
  ELSE LET method == Get(request, "method") IN
    CASE method = Str("checkConstraints") -> handleCheckConstraints(request)
      [] method = Str("getSystemStatus") ->
           Return(handleGetSystemStatus(request), <<"handleGetSystemStatus">>, FALSE)
      [] method = Str("getEvolutionStage") ->
           Return(handleGetEvolutionStage(request), <<"handleGetEvolutionStage">>, FALSE)
      [] OTHER ->
           Return(ErrorResponse(-32601, <<"Method not found">>, Get(request, "id")),
                  <<>>, TRUE)

----------------------------------------------------------------------------
(* Transport B's dispatcher: McpStdioServer.ts *)

stdioHandleGetSystemStatus(request) ==
  ResultResponse([k |-> "object", status |-> Str("running"),
                  version |-> Str("1.0.0"), uptime |-> Num,
                  timestamp |-> Str("now")],
                 Get(request, "id"))

stdioHandleGetEvolutionStage(request) ==
  ResultResponse([k |-> "object", currentStage |-> Str("MVP"),
                  description |-> Str("Minimum Viable Product - Core functionality implemented"),
                  capabilities |-> List(<<Str("Basic constraint generation"),
                                          Str("Task Context Capsule support"),
                                          Str("MCP integration"),
                                          Str("CLI interface")>>),
                  timestamp |-> Str("now")],
                 Get(request, "id"))

stdioViolations == List(<<>>)

stdioHandleCheckConstraints(request) ==
  LET params == Get(request, "params")
      id == Get(request, "id")
      calls == <<"handleCheckConstraints">>
  IN
  IF Throws(params)
  THEN Return(ErrorResponse(-32603, <<"Cannot destructure property 'tccPath'">>, id),
              calls, FALSE)
  ELSE IF Falsy(Get(params, "tccPath")) \/ Falsy(Get(params, "specPath"))
  THEN Return(ErrorResponse(-32602, <<"Missing required parameters", ": tccPath and specPath">>, id),
              calls, FALSE)
  ELSE Await("loadSpec", calls \o <<"loadSpecification(specPath)">>)

stdioHandleCheckConstraintsSpec(request, loaded, calls) ==
  IF ~loaded.ok
  THEN Return(ErrorResponse(-32001, <<"Failed to load specification: ">> \o loaded.message,
                            Get(request, "id")),
              calls, FALSE)
  ELSE Await("loadTcc", calls \o <<"loadSpecification(tccPath)">>)

stdioHandleCheckConstraintsTcc(request, loaded, generated, calls) ==
  IF ~loaded.ok
  THEN Return(ErrorResponse(-32002, <<"Failed to load task context capsule: ">> \o loaded.message,
                            Get(request, "id")),
              calls, FALSE)
  ELSE Return(ResultResponse([k |-> "object", constraints |-> Promise(generated),
                              violations |-> stdioViolations,
                              timestamp |-> Str("now")],
                             Get(request, "id")),
              calls \o <<"generateConstraints">>, FALSE)

\* handleMcpRequest of the stdio server from its entry to its first
\* suspension.  The default branch awaits nothing and writes its response in
\* the caller's turn; the other branches write after an await.  For a request
\* that is null the catch block itself throws (request.id) before it writes.
stdioHandleMcpRequest(request) ==
  IF Throws(request) THEN Reject(<<>>)
  ELSE LET method == Get(request, "method") IN
    CASE method = Str("checkConstraints") -> stdioHandleCheckConstraints(request)
      [] method = Str("getSystemStatus") ->
           Return(stdioHandleGetSystemStatus(request), <<"handleGetSystemStatus">>, FALSE)
      [] method = Str("getEvolutionStage") ->
           Return(stdioHandleGetEvolutionStage(request), <<"handleGetEvolutionStage">>, FALSE)
      [] OTHER ->
           Return(ErrorResponse(-32601, <<"Method not found">>, Get(request, "id")),
                  <<>>, TRUE)

----------------------------------------------------------------------------
(* The inputs of the model *)

Methods == {Str("checkConstraints"), Str("getSystemStatus"),
            Str("getEvolutionStage"), Str("unknownMethod"), Undefined}
Ids == {Undefined, Str("1")}
TccPaths == {Undefined, Str(""), Str("t.json")}
SpecPaths == {Undefined, Str(""), Str("s.json")}

ParamsObject(tccPath, specPath) ==
  [k |-> "object", tccPath |-> tccPath, specPath |-> specPath]
Request(method, params, id) ==
  [k |-> "object", method |-> method, params |-> params, id |-> id]

\* params of a checkConstraints request: none, null, or an object with each
\* path absent, empty or present
CheckParams ==
  {Undefined, Null} \cup {ParamsObject(t, s) : t \in TccPaths, s \in SpecPaths}
\* params of the other requests: none, or an object
OtherParams == {Undefined, ParamsObject(Str("t.json"), Str("s.json"))}

\* The JSON documents a client may send: every request object of the shapes
\* above, and the non-objects null and a number
Documents ==
  {Null, Num}
  \cup {Request(Str("checkConstraints"), p, i) : p \in CheckParams, i \in Ids}
  \cup {Request(m, p, i) : m \in Methods \ {Str("checkConstraints")},
                           p \in OtherParams, i \in Ids}

\* a second client's request, told apart by its id
Background == Request(Str("getSystemStatus"), Undefined, Str("2"))

Pools == {{d, Background} : d \in Documents}

\* the clients of overlapping connections
OverlapPools ==
  {{Request(Str("checkConstraints"), ParamsObject(Str("t.json"), Str("s.json")),
            Str("1")),
    Background}}

\* what a loaded file may hold
SpecDoc == [k |-> "object", SOF |-> Str("Maximize(UserValue)")]
TccDoc(taskType, relevant) ==
  [k |-> "object", taskType |-> Str(taskType),
   context |-> [k |-> "object", relevantConstraints |-> List(relevant)]]

\* what may be found at specPath: nothing, text that is no JSON, a document
\* the schema rejects, a specification, another specification
SpecFiles ==
  {Missing, File(<<>>, TRUE), File(<<Doc(SpecDoc)>>, FALSE),
   File(<<Doc(SpecDoc)>>, TRUE),
   File(<<Doc([k |-> "object", SOF |-> Str("Minimize(Cost)")])>>, TRUE)}

\* what may be found at tccPath: nothing, text that is no JSON, a document
\* that loads but is no TCC, and two TCCs
TccFiles ==
  {Missing, File(<<>>, TRUE), File(<<Doc(SpecDoc)>>, TRUE),
   File(<<Doc(TccDoc("FINANCIAL", <<Str("SEC-002")>>))>>, TRUE),
   File(<<Doc(TccDoc("API", <<>>)), SP>>, TRUE)}

\* template stores: all three directories readable; and one with an
\* unreadable directory and a malformed record
Stores ==
  {<<Dir(TRUE, <<Entry(TRUE, <<Doc(Template("SEC-002", "SECURITY", List(<<Str("FINANCIAL")>>), "ERROR"))>>),
                 Entry(TRUE, <<Doc(Template("SEC-001", "SECURITY", List(<<Str("ALL")>>), "ERROR"))>>)>>),
     Dir(TRUE, <<Entry(FALSE, <<>>),
                 Entry(TRUE, <<Doc(Template("PERF-001", "PERFORMANCE", List(<<Str("API")>>), "WARNING"))>>)>>),
     Dir(TRUE, <<>>)>>,
   <<Dir(FALSE, <<>>),
     Dir(TRUE, <<Entry(TRUE, <<Doc(Template("PERF-002", "PERFORMANCE", List(<<Str("ALL")>>), "WARNING"))>>),
                 Entry(TRUE, <<>>)>>),
     Dir(TRUE, <<Entry(TRUE, <<Doc(Template("ARCH-002", "ARCHITECTURE", List(<<Str("API"), Str("DATABASE")>>), "WARNING"))>>)>>)>>}

SeqsUpTo(S, n) == UNION {[1..m -> S] : m \in 1..n}

----------------------------------------------------------------------------
(* State *)

Conns == 1..NumConns

\* an http response: res.writeHead(status, headers); res.end(body)
Http(status, contentType, allowMethods, allowHeaders, body) ==
  [status |-> status, contentType |-> contentType, allowOrigin |-> "*",
   allowMethods |-> allowMethods, allowHeaders |-> allowHeaders, body |-> body]
\* A faulty variant of JsonHttp: the transport status follows the envelope
JsonHttpByOutcome(response) ==
  Http(IF "error" \in DOMAIN response THEN 400 ELSE 200,
       "application/json", "", "", JSONstringify(response))

JsonHttp(response) ==
  Http(200, "application/json", "", "", JSONstringify(response))
EmptyBody == [k |-> "empty"]

\* What is recorded of one request, on either transport: whether
\* handleMcpRequest was called for it and with what, the handlers and
\* collaborators called, how the two loads and the generation settled, and
\* whether a rejection of the promise of generateConstraints is still to come
\* (its fulfilment is observed by nobody and changes nothing).
NoCycle ==
  [dispatched |-> FALSE, request |-> Undefined, calls |-> <<>>,
   specLoad |-> Undefined, tccLoad |-> Undefined, generated |-> Undefined,
   pending |-> FALSE]

\* a connection before its request arrives
IdleConn ==
  [phase |-> "idle", verb |-> "", body |-> <<>>, responses |-> <<>>,
   cycle |-> NoCycle]

\* an entry of `tasks`: one non-blank message of the stdio server
Task(line, pc, cycle) == [line |-> line, pc |-> pc, cycle |-> cycle]

\* one response written to stdout, tagged with the task it answers
Out(response, task) == [t |-> "doc", v |-> JSONstringify(response), task |-> task]

Rejection(from, request) == [from |-> from, request |-> request]

\* the process: running, or exited with `code` by the handler of `by`
Running == [k |-> "running"]
Exited(code, by) == [k |-> "exited", code |-> code, by |-> by]

\* A promise rejection nobody handles: depending on the runtime's
\* unhandled-rejections mode it is reported as a warning, or raised as an
\* uncaught exception that ends the process with code 1
Crash == Exited(1, "unhandledRejection")

\* no library call was made
NoCall == [op |-> "none", now |-> 0, updates |-> 0]

Init ==
  /\ transport \in {"A", "B"}
  /\ pool \in Pools
  /\ conns = [c \in Conns |-> IdleConn]
  /\ buffer = <<>>
  /\ nread = 0
  /\ received = <<>>
  /\ tasks = <<>>
  /\ stdout = <<>>
  /\ rejections = {}
  /\ stdin = "open"
  /\ exit = Running
  /\ capsule = Undefined
  /\ call = NoCall
  /\ disk = NoDisk

UnchangedB == UNCHANGED <<buffer, nread, received, tasks, stdout, stdin, exit>>
UnchangedA == UNCHANGED conns

\* the record of a request once its handler has run to `outcome`
Dispatched(request, outcome) ==
  [NoCycle EXCEPT !.dispatched = TRUE, !.request = request,
                  !.calls = outcome.calls]

----------------------------------------------------------------------------
(* Transport A: the request handler of initializeMcpServer *)

MethodNotAllowedResponse ==
  ErrorResponse(-32600, <<"Method not allowed">>, Str("method-not-allowed"))
ParseErrorResponse ==
  ErrorResponse(-32700, <<"Parse error">>, Str("parse-error"))

Verbs == {"OPTIONS", "GET", "PUT", "POST"}

\* A faulty variant of ARequest: no preflight branch, so that OPTIONS is
\* refused like any other verb that is not POST
ARequestNoPreflight(c, verb) ==
  /\ transport = "A"
  /\ exit = Running
  /\ conns[c].phase = "idle"
  /\ conns' = [conns EXCEPT ![c] =
       IF verb # "POST"
       THEN [@ EXCEPT !.phase = "done", !.verb = verb,
               !.responses = Append(@, JsonHttp(MethodNotAllowedResponse))]
       ELSE [@ EXCEPT !.phase = "reading", !.verb = verb]]
  /\ UNCHANGED <<transport, pool, capsule, call, disk, rejections>>
  /\ UnchangedB

\* A faulty variant of ARequest: no check of the verb after the preflight
\* branch, so that the body of any request is read and dispatched
ARequestAnyVerb(c, verb) ==
  /\ transport = "A"
  /\ exit = Running
  /\ conns[c].phase = "idle"
  /\ conns' = [conns EXCEPT ![c] =
       IF verb = "OPTIONS"
       THEN [@ EXCEPT !.phase = "done", !.verb = verb,
               !.responses = Append(@, Http(204, "", "POST, GET, OPTIONS",
                                            "Content-Type", EmptyBody))]
       ELSE [@ EXCEPT !.phase = "reading", !.verb = verb]]
  /\ UNCHANGED <<transport, pool, capsule, call, disk, rejections>>
  /\ UnchangedB

\* A request arrives on connection c: the handler up to the registration of
\* the body listeners
ARequest(c, verb) ==
  /\ transport = "A"
  /\ exit = Running
  /\ conns[c].phase = "idle"
  /\ conns' = [conns EXCEPT ![c] =
       IF verb = "OPTIONS"
       THEN [@ EXCEPT !.phase = "done", !.verb = verb,
               !.responses = Append(@, Http(204, "", "POST, GET, OPTIONS",
                                            "Content-Type", EmptyBody))]
       ELSE IF verb # "POST"
       THEN [@ EXCEPT !.phase = "done", !.verb = verb,
               !.responses = Append(@, JsonHttp(MethodNotAllowedResponse))]
       ELSE [@ EXCEPT !.phase = "reading", !.verb = verb]]
  /\ UNCHANGED <<transport, pool, capsule, call, disk, rejections>>
  /\ UnchangedB

\* req.on('data'): body += chunk
AData(c, chunk) ==
  /\ transport = "A"
  /\ exit = Running
  /\ conns[c].phase = "reading"
  /\ Len(conns[c].body) + Len(chunk) <= MaxBody
  /\ conns' = [conns EXCEPT ![c].body = @ \o chunk]
  /\ UNCHANGED <<transport, pool, capsule, call, disk, rejections>>
  /\ UnchangedB

\* The end handler's reaction to what `await handleMcpRequest(request)` came
\* to: a response is written, or the handler stays suspended in a load.  A
\* rejection of handleMcpRequest lands in the catch that answers a parse error.
ASettle(conn, outcome) ==
  IF outcome.k = "await"
  THEN [conn EXCEPT !.phase = outcome.pc, !.cycle.calls = outcome.calls]
  ELSE [conn EXCEPT !.phase = "done", !.cycle.calls = outcome.calls,
          !.responses = Append(@, JsonHttp(IF outcome.k = "reject"
                                           THEN ParseErrorResponse
                                           ELSE outcome.response))]

\* req.on('end'): parse the body and dispatch; `body` is not read again
AEnd(c) ==
  /\ transport = "A"
  /\ exit = Running
  /\ conns[c].phase = "reading"
  /\ LET parsed == JSONparse(conns[c].body) IN
     conns' = [conns EXCEPT ![c] =
       IF ~parsed.ok
       THEN [@ EXCEPT !.phase = "done", !.body = <<>>,
               !.responses = Append(@, JsonHttp(ParseErrorResponse))]
       ELSE LET outcome == handleMcpRequest(parsed.value) IN
            ASettle([@ EXCEPT !.body = <<>>,
                              !.cycle = Dispatched(parsed.value, outcome)],
                    outcome)]
  /\ UNCHANGED <<transport, pool, capsule, call, disk, rejections>>
  /\ UnchangedB

\* loadSpecification(specPath) settles
ALoadSpec(c, file) ==
  /\ transport = "A"
  /\ exit = Running
  /\ conns[c].phase = "loadSpec"
  /\ LET request == conns[c].cycle.request
         loaded == loadSpecification(PathText(request.params.specPath), file)
     IN conns' = [conns EXCEPT ![c] =
          ASettle([@ EXCEPT !.cycle.specLoad = loaded],
                  handleCheckConstraintsSpec(request, loaded, @.cycle.calls))]
  /\ UNCHANGED <<transport, pool, capsule, call, disk, rejections>>
  /\ UnchangedB

\* loadSpecification(tccPath) settles; on success generateConstraints(tcc) is
\* called against the template store as it then is
ALoadTcc(c, file, store) ==
  /\ transport = "A"
  /\ exit = Running
  /\ conns[c].phase = "loadTcc"
  /\ LET request == conns[c].cycle.request
         loaded == loadSpecification(PathText(request.params.tccPath), file)
         generated == generateConstraints(loaded.value, store)
     IN conns' = [conns EXCEPT ![c] =
          ASettle([@ EXCEPT !.cycle.tccLoad = loaded,
                            !.cycle.generated = IF loaded.ok THEN generated
                                                ELSE Undefined,
                            !.cycle.pending = loaded.ok /\ ~generated.ok],
                  handleCheckConstraintsTcc(request, loaded, generated,
                                            @.cycle.calls))]
  /\ UNCHANGED <<transport, pool, capsule, call, disk, rejections>>
  /\ UnchangedB

\* the promise of generateConstraints is rejected, with nobody listening
AGenerated(c, crash) ==
  /\ transport = "A"
  /\ exit = Running
  /\ conns[c].cycle.pending
  /\ conns' = [conns EXCEPT ![c].cycle.pending = FALSE]
  /\ rejections' =
       rejections \cup {Rejection("generateConstraints", conns[c].cycle.request)}
  /\ exit' = IF crash THEN Crash ELSE exit
  /\ UNCHANGED <<transport, pool, capsule, call, disk, buffer, nread, received, tasks, stdout, stdin>>

\* the exchange is over; the next request comes on a fresh connection
AClose(c) ==
  /\ transport = "A"
  /\ exit = Running
  /\ conns[c].phase = "done"
  /\ ~conns[c].cycle.pending
  /\ conns' = [conns EXCEPT ![c] = IdleConn]
  /\ UNCHANGED <<transport, pool, capsule, call, disk, rejections>>
  /\ UnchangedB

----------------------------------------------------------------------------
(* Transport B: the stdin listeners of initializeMcpStdioServer *)

\* buffer.indexOf('\n'), counted from 1; 0 when there is none
RECURSIVE IndexOfNL(_, _)
IndexOfNL(s, i) ==
  IF i > Len(s) THEN 0
  ELSE IF s[i] = NL THEN i
  ELSE IndexOfNL(s, i + 1)

\* One message of the while loop.  st collects the turn: the tasks started,
\* the responses written in the turn itself (sync), those written by the
\* continuations that run once the listener has returned (micro), and the
\* rejections nobody handles.
ProcessMessage(st, message) ==
  IF Trim(message) = <<>> THEN st
  ELSE LET parsed == JSONparse(message)
           task == Len(st.tasks) + 1
       IN
    IF ~parsed.ok
    THEN [st EXCEPT !.tasks = Append(@, Task(message, "done", NoCycle)),
                    !.sync = Append(@, Out(ParseErrorResponse, task))]
    ELSE
      LET outcome == stdioHandleMcpRequest(parsed.value)
          started == [st EXCEPT !.tasks =
                        Append(@, Task(message, outcome.pc,
                                       Dispatched(parsed.value, outcome)))]
      IN
      CASE outcome.k = "reject" ->
             [started EXCEPT !.rejections =
                @ \cup {Rejection("handleMcpRequest", parsed.value)}]
        [] outcome.k = "await" -> started
        [] outcome.k = "return" /\ outcome.sync ->
             [started EXCEPT !.sync = Append(@, Out(outcome.response, task))]
        [] outcome.k = "return" /\ ~outcome.sync ->
             [started EXCEPT !.micro = Append(@, Out(outcome.response, task))]

\* A faulty variant of ProcessBuffer: the first message is taken and what
\* follows it in the buffer is dropped
ProcessBufferOnce(st) ==
  LET newlineIndex == IndexOfNL(st.buffer, 1) IN
  IF newlineIndex = 0 THEN st
  ELSE ProcessMessage([st EXCEPT !.buffer = <<>>],
                      SubSeq(st.buffer, 1, newlineIndex - 1))

\* while (buffer.includes('\n')) { ... }
RECURSIVE ProcessBuffer(_)
ProcessBuffer(st) ==
  LET newlineIndex == IndexOfNL(st.buffer, 1) IN
  IF newlineIndex = 0 THEN st
  ELSE ProcessBuffer(
         ProcessMessage(
           [st EXCEPT !.buffer = SubSeq(@, newlineIndex + 1, Len(@))],
           SubSeq(st.buffer, 1, newlineIndex - 1)))

\* A faulty variant of Lines: the responses are written without the newline
LinesUnterminated(outs) == outs

\* every response is written as JSON.stringify(response) + '\n'
RECURSIVE Lines(_)
Lines(outs) ==
  IF outs = <<>> THEN <<>> ELSE <<Head(outs), NL>> \o Lines(Tail(outs))

\* A faulty variant of BData: the responses of the listener's own turn are
\* written after those of the continuations
BDataMicroFirst(chunk, crash) ==
  /\ transport = "B"
  /\ exit = Running
  /\ stdin = "open"
  /\ nread + Len(chunk) <= MaxInput
  /\ nread' = nread + Len(chunk)
  /\ LET st == ProcessBuffer([buffer |-> buffer \o chunk, tasks |-> tasks,
                              sync |-> <<>>, micro |-> <<>>,
                              rejections |-> rejections])
     IN /\ crash => st.rejections # rejections
        /\ buffer' = IF crash THEN <<>> ELSE st.buffer
        /\ tasks' = IF crash THEN <<>> ELSE st.tasks
        /\ stdout' = stdout \o Lines(st.micro \o st.sync)
        /\ rejections' = st.rejections
        /\ exit' = IF crash THEN Crash ELSE exit
  /\ UNCHANGED <<transport, pool, capsule, call, disk, stdin>>
  /\ UnchangedA

\* process.stdin.on('data'): the listener, and the continuations it leaves
\* ready, which run before the next event.  A rejection left unhandled is
\* looked at once they have run: `crash` tells that it ends the process.
BData(chunk, crash) ==
  /\ transport = "B"
  /\ exit = Running
  /\ stdin = "open"
  /\ nread + Len(chunk) <= MaxInput
  /\ nread' = nread + Len(chunk)
  /\ LET st == ProcessBuffer([buffer |-> buffer \o chunk, tasks |-> tasks,
                              sync |-> <<>>, micro |-> <<>>,
                              rejections |-> rejections])
     IN /\ crash => st.rejections # rejections
        /\ buffer' = IF crash THEN <<>> ELSE st.buffer
        /\ tasks' = IF crash THEN <<>> ELSE st.tasks
        /\ stdout' = stdout \o Lines(st.sync \o st.micro)
        /\ rejections' = st.rejections
        /\ exit' = IF crash THEN Crash ELSE exit
  /\ UNCHANGED <<transport, pool, capsule, call, disk, stdin>>
  /\ UnchangedA

\* The reaction of the stdio handleMcpRequest to what its awaited handler came
\* to: it writes the response, or stays suspended
BSettle(i, task, outcome) ==
  /\ tasks' = [tasks EXCEPT ![i] = [task EXCEPT !.pc = outcome.pc,
                                                 !.cycle.calls = outcome.calls]]
  /\ stdout' = IF outcome.k = "return"
               THEN stdout \o Lines(<<Out(outcome.response, i)>>)
               ELSE stdout

BLoadSpec(i, file) ==
  /\ transport = "B"
  /\ exit = Running
  /\ i \in 1..Len(tasks)
  /\ tasks[i].pc = "loadSpec"
  /\ LET request == tasks[i].cycle.request
         loaded == loadSpecification(PathText(request.params.specPath), file)
     IN BSettle(i, [tasks[i] EXCEPT !.cycle.specLoad = loaded],
                stdioHandleCheckConstraintsSpec(request, loaded,
                                                tasks[i].cycle.calls))
  /\ UNCHANGED <<transport, pool, capsule, call, disk, conns, buffer, nread, received, rejections, stdin, exit>>

BLoadTcc(i, file, store) ==
  /\ transport = "B"
  /\ exit = Running
  /\ i \in 1..Len(tasks)
  /\ tasks[i].pc = "loadTcc"
  /\ LET request == tasks[i].cycle.request
         loaded == loadSpecification(PathText(request.params.tccPath), file)
         generated == generateConstraints(loaded.value, store)
     IN BSettle(i, [tasks[i] EXCEPT !.cycle.tccLoad = loaded,
                                    !.cycle.generated = IF loaded.ok THEN generated
                                                        ELSE Undefined,
                                    !.cycle.pending = loaded.ok /\ ~generated.ok],
                stdioHandleCheckConstraintsTcc(request, loaded, generated,
                                               tasks[i].cycle.calls))
  /\ UNCHANGED <<transport, pool, capsule, call, disk, conns, buffer, nread, received, rejections, stdin, exit>>

\* the promise of generateConstraints is rejected, with nobody listening; when
\* that ends the process, the buffer and the suspended handlers go with it
BGenerated(i, crash) ==
  /\ transport = "B"
  /\ exit = Running
  /\ i \in 1..Len(tasks)
  /\ tasks[i].cycle.pending
  /\ rejections' =
       rejections \cup {Rejection("generateConstraints", tasks[i].cycle.request)}
  /\ IF crash
     THEN exit' = Crash /\ tasks' = <<>> /\ buffer' = <<>>
     ELSE /\ tasks' = [tasks EXCEPT ![i].cycle.pending = FALSE]
          /\ UNCHANGED <<buffer, exit>>
  /\ UNCHANGED <<transport, pool, capsule, call, disk, conns, nread, received, stdout, stdin>>

\* process.stdin.on('end'): a log line, nothing else.  No 'data' follows, so
\* `buffer` is not read again.
BEnd ==
  /\ transport = "B"
  /\ exit = Running
  /\ stdin = "open"
  /\ stdin' = "ended"
  /\ buffer' = <<>>
  /\ UNCHANGED <<transport, pool, capsule, call, disk, conns, nread, received, tasks, stdout, rejections, exit>>

ServerErrorResponse ==
  ErrorResponse(-32603, <<"Internal error: ", "read EIO">>, Str("server-error"))

\* process.stdin.on('error'): one envelope is written.  The stream is
\* destroyed: no 'data' follows and `buffer` is not read again.
BStdinError ==
  /\ transport = "B"
  /\ exit = Running
  /\ stdin = "open"
  /\ stdin' = "error"
  /\ stdout' = stdout \o Lines(<<Out(ServerErrorResponse, 0)>>)
  /\ buffer' = <<>>
  /\ UNCHANGED <<transport, pool, capsule, call, disk, conns, nread, received, tasks, rejections, exit>>

\* process.on('SIGINT'): process.exit(0).  The buffer and the suspended
\* handlers go with the process; what was written stays written.
BSigint ==
  /\ transport = "B"
  /\ exit = Running
  /\ exit' = Exited(0, "SIGINT")
  /\ buffer' = <<>>
  /\ tasks' = <<>>
  /\ UNCHANGED <<transport, pool, capsule, call, disk, conns, nread, received, stdout, rejections, stdin>>

----------------------------------------------------------------------------
(* The system *)

BodySymbols == {SP} \cup {Doc(d) : d \in pool}
LineSymbols == {NL, SP} \cup {Doc(d) : d \in pool}

Next ==
  \/ \E c \in Conns, verb \in Verbs : ARequest(c, verb)
  \/ \E c \in Conns, chunk \in SeqsUpTo(BodySymbols, MaxChunkLen) : AData(c, chunk)
  \/ \E c \in Conns : AEnd(c)
  \/ \E c \in Conns, file \in SpecFiles : ALoadSpec(c, file)
  \/ \E c \in Conns, file \in TccFiles, store \in Stores : ALoadTcc(c, file, store)
  \/ \E c \in Conns, crash \in BOOLEAN : AGenerated(c, crash)
  \/ \E c \in Conns : AClose(c)
  \/ \E chunk \in SeqsUpTo(LineSymbols, MaxChunkLen), crash \in BOOLEAN :
       BData(chunk, crash) /\ UNCHANGED received
  \/ \E i \in 1..MaxInput, file \in SpecFiles : BLoadSpec(i, file)
  \/ \E i \in 1..MaxInput, file \in TccFiles, store \in Stores : BLoadTcc(i, file, store)
  \/ \E i \in 1..MaxInput, crash \in BOOLEAN : BGenerated(i, crash)
  \/ BEnd
  \/ BStdinError
  \/ BSigint

Spec == Init /\ [][Next]_vars

\* Transport A under overlapping requests: NumOverlap connections at once,
\* each serving one request, from two clients, one sending checkConstraints
\* and one getSystemStatus
InitOverlap ==
  /\ transport = "A"
  /\ pool \in OverlapPools
  /\ conns = [c \in 1..NumOverlap |-> IdleConn]
  /\ buffer = <<>>
  /\ nread = 0
  /\ received = <<>>
  /\ tasks = <<>>
  /\ stdout = <<>>
  /\ rejections = {}
  /\ stdin = "open"
  /\ exit = Running
  /\ capsule = Undefined
  /\ call = NoCall
  /\ disk = NoDisk

NextOverlap ==
  \/ \E c \in DOMAIN conns, verb \in Verbs : ARequest(c, verb)
  \/ \E c \in DOMAIN conns, chunk \in SeqsUpTo(BodySymbols, MaxChunkLen) : AData(c, chunk)
  \/ \E c \in DOMAIN conns : AEnd(c)
  \/ \E c \in DOMAIN conns, file \in SpecFiles : ALoadSpec(c, file)
  \/ \E c \in DOMAIN conns, file \in TccFiles, store \in Stores : ALoadTcc(c, file, store)
  \/ \E c \in DOMAIN conns, crash \in BOOLEAN : AGenerated(c, crash)

SpecOverlap == InitOverlap /\ [][NextOverlap]_vars

\* Transport B with the input recorded: `received` is the concatenation of
\* the chunks stdin has delivered
InitFraming ==
  /\ Init
  /\ transport = "B"
  /\ pool \in OverlapPools \cup {{Null, Background}}

NextFraming ==
  \/ \E chunk \in SeqsUpTo(LineSymbols, MaxChunkLen), crash \in BOOLEAN :
       BData(chunk, crash) /\ received' = received \o chunk
  \/ \E i \in 1..MaxInput, file \in SpecFiles : BLoadSpec(i, file)
  \/ \E i \in 1..MaxInput, file \in TccFiles, store \in Stores : BLoadTcc(i, file, store)
  \/ \E i \in 1..MaxInput, crash \in BOOLEAN : BGenerated(i, crash)
  \/ BEnd
  \/ BStdinError
  \/ BSigint

SpecFraming == InitFraming /\ [][NextFraming]_vars

----------------------------------------------------------------------------
(* The core library called directly: the TCC builder *)

UnchangedServer ==
  UNCHANGED <<transport, pool, conns, buffer, nread, received, tasks, stdout,
              rejections, stdin, exit, disk>>

TaskIds == {Str("T-1")}
TaskTypes ==
  {Str("FINANCIAL"), Str("financial"), Str("AUTHENTICATION"), Str("Api"),
   Str("DATABASE"), Str("custom")}
\* goals: a short one, and those that bring the TCC near the size limit
GoalPads == {0} \cup ((SizeLimit - 360 - MaxSlack)..(SizeLimit - 360 + MaxSlack))
Goals == {Padded("g", pad) : pad \in GoalPads}
\* source and priority: the defaults of generateTCC, and a caller's choice
Origins ==
  {<<Str("user-request"), Str("MEDIUM")>>,
   <<Str("automated-process"), Str("CRITICAL")>>}

\* a specification whose metadata names constraints per task type
GlobalSpec ==
  [k |-> "object", SOF |-> Str("Maximize(UserValue)"),
   metadata |->
     [k |-> "object",
      taskConstraints |->
        [k |-> "object",
         FINANCIAL |-> List(<<Str("SEC-002"), Str("FIN-001"), Str("FIN-001")>>),
         custom |-> List(<<Str("X-1")>>),
         DATABASE |-> Number(7)]]]

\* what may be found at GlobalSpecPath: nothing, a document the schema
\* rejects, a specification without metadata, one with task constraints
GlobalSpecFiles ==
  {Missing, File(<<Doc(GlobalSpec)>>, FALSE), File(<<Doc(SpecDoc)>>, TRUE),
   File(<<Doc(GlobalSpec)>>, TRUE)}

\* arguments of updateTCCWithSystemState that no builder returned
ForeignArgs ==
  {Undefined, Null, Str("tcc"), EmptyObject,
   [k |-> "object", context |-> EmptyObject],
   [k |-> "object", context |-> [k |-> "object", systemState |-> Null]],
   [k |-> "object", taskId |-> Str("T-9"),
    context |-> [k |-> "object", systemState |-> EmptyObject]]}

InitCore ==
  /\ transport = "none"
  /\ pool = {}
  /\ conns = <<>>
  /\ buffer = <<>>
  /\ nread = 0
  /\ received = <<>>
  /\ tasks = <<>>
  /\ stdout = <<>>
  /\ rejections = {}
  /\ stdin = "open"
  /\ exit = Running
  /\ capsule = Undefined
  /\ call = NoCall
  /\ disk = NoDisk

\* const tcc = createTCC(taskId, goal, taskType)
CreateTCC(taskId, goal, taskType, now) ==
  /\ call.op = "none"
  /\ capsule' = createTCC(taskId, goal, taskType, now)
  /\ call' = [op |-> "createTCC", ok |-> TRUE, now |-> now, updates |-> 0,
              taskType |-> taskType]
  /\ UnchangedServer

\* const tcc = await generateTCC(taskId, goal, taskType, source, priority);
\* when the promise rejects the caller holds no TCC
GenerateTCC(taskId, goal, taskType, origin, now, file) ==
  /\ call.op = "none"
  /\ LET settled == generateTCC(taskId, goal, taskType, origin[1], origin[2],
                                now, file)
     IN /\ capsule' = settled.value
        /\ call' = [op |-> "generateTCC", ok |-> settled.ok, now |-> now,
                    updates |-> 0, taskType |-> taskType, origin |-> origin,
                    file |-> file, built |-> settled.built,
                    byteSize |-> settled.byteSize, message |-> settled.message]
  /\ UnchangedServer

\* await updateTCCWithSystemState(tcc), on the TCC the caller holds or, as
\* the first call, on a foreign argument; the argument is changed in place
UpdateTCC(tcc, now) ==
  /\ call.updates < MaxUpdates
  /\ now >= call.now
  /\ \/ call.op = "none" /\ tcc \in ForeignArgs
     \/ call.op # "none" /\ tcc = capsule /\ capsule # Undefined
  /\ LET settled == updateTCCWithSystemState(tcc, now) IN
       /\ capsule' = settled.tcc
       /\ call' = [op |-> "updateTCCWithSystemState", ok |-> settled.fulfilled,
                   updated |-> settled.updated, now |-> now,
                   updates |-> call.updates + 1, before |-> tcc]
  /\ UnchangedServer

NextTcc ==
  \/ \E taskId \in TaskIds, goal \in Goals, taskType \in TaskTypes, now \in 1..MaxClock :
       CreateTCC(taskId, goal, taskType, now)
  \/ \E taskId \in TaskIds, goal \in Goals, taskType \in TaskTypes,
        origin \in Origins, now \in 1..MaxClock, file \in GlobalSpecFiles :
       GenerateTCC(taskId, goal, taskType, origin, now, file)
  \/ \E tcc \in {capsule} \cup ForeignArgs, now \in 1..MaxClock : UpdateTCC(tcc, now)

SpecTcc == InitCore /\ [][NextTcc]_vars

----------------------------------------------------------------------------
(* The core library called directly: the template store *)

\* directory entries: a file that is no .json, a .json file that does not
\* parse, a record without applicableTasks, and three templates
Entries ==
  {Entry(FALSE, <<>>),
   Entry(TRUE, <<>>),
   Entry(TRUE, <<Doc([k |-> "object", id |-> Str("NO-TASKS")])>>),
   Entry(TRUE, <<Doc(Template("SEC-002", "SECURITY", List(<<Str("FINANCIAL")>>), "ERROR"))>>),
   Entry(TRUE, <<Doc(Template("SEC-001", "SECURITY", List(<<Str("ALL")>>), "ERROR"))>>),
   Entry(TRUE, <<Doc(Template("LOW-001", "OTHER", List(<<Str("financial"), Str("API")>>), "WARNING"))>>)}

\* a directory: unreadable, or holding up to MaxFiles entries in any order
Dirs ==
  {Dir(FALSE, <<>>)} \cup
  {Dir(TRUE, files) : files \in {<<>>} \cup SeqsUpTo(Entries, MaxFiles)}

\* the directories next to the one under study: empty, unreadable, holding
\* a template that applies to every task
PlainDirs ==
  {Dir(TRUE, <<>>), Dir(FALSE, <<>>),
   Dir(TRUE, <<Entry(TRUE, <<Doc(Template("SEC-001", "SECURITY", List(<<Str("ALL")>>), "ERROR"))>>)>>)}

\* security, performance, architecture: one of them any directory
TemplateStores ==
  {store \in [1..3 -> Dirs] :
     \E p \in 1..3 : \A q \in (1..3) \ {p} : store[q] \in PlainDirs}

MatchedTaskTypes == {Str("FINANCIAL"), Str("financial"), Str("API")}

\* const templates = await matchTemplates(taskType)
MatchTemplates(taskType, store) ==
  /\ call.op = "none"
  /\ call' = [op |-> "matchTemplates", ok |-> TRUE, now |-> 0, updates |-> 0,
              taskType |-> taskType, store |-> store,
              result |-> matchTemplates(taskType, store)]
  /\ UNCHANGED capsule
  /\ UnchangedServer

NextTemplates ==
  \E taskType \in MatchedTaskTypes, store \in TemplateStores :
    MatchTemplates(taskType, store)

SpecTemplates == InitCore /\ [][NextTemplates]_vars

----------------------------------------------------------------------------
(* The core library called directly: the constraint generator *)

RelevantIds == {Str("SEC-001"), Str("SEC-002"), Str("PERF-001"), Str("X-1")}

\* arguments of generateConstraints: TCCs as a client may have built them,
\* and two values that are no TCC
GeneratorTccs ==
  {TccDoc(taskType, relevant) :
     taskType \in {"FINANCIAL", "API", "financial"},
     relevant \in {<<>>} \cup SeqsUpTo(RelevantIds, MaxRelevant)}
  \cup {SpecDoc, Null}

\* const constraints = await generateConstraints(tcc)
GenerateConstraints(tcc, store) ==
  /\ call.op = "none"
  /\ LET settled == generateConstraints(tcc, store) IN
     call' = [op |-> "generateConstraints", ok |-> settled.ok, now |-> 0,
              updates |-> 0, tcc |-> tcc, store |-> store,
              result |-> settled.value, message |-> settled.message]
  /\ UNCHANGED capsule
  /\ UnchangedServer

NextGenerator ==
  \E tcc \in GeneratorTccs, store \in Stores : GenerateConstraints(tcc, store)

SpecGenerator == InitCore /\ [][NextGenerator]_vars

----------------------------------------------------------------------------
(* The command line: CliInterface and the entry code of index.ts *)

\* constraints.some(c => c.id === id)
SomeId(constraints, id) ==
  \E i \in 1..Len(constraints.items) : Get(constraints.items[i], "id") = Str(id)

\* checkForViolations: the simulated checks, by task type
checkForViolations(constraints, tcc) ==
  IF Throws(tcc) \/ Falsy(Get(tcc, "taskType")) THEN <<>>
  ELSE LET upper == ToUpperCase(tcc.taskType.s) IN
    CASE upper = "FINANCIAL" /\ ~SomeId(constraints, "SEC-003") ->
           <<"Financial task requires audit logging (SEC-003)">>
      [] upper = "AUTHENTICATION" /\ ~SomeId(constraints, "SEC-001") ->
           <<"Authentication task requires input validation (SEC-001)">>
      [] upper = "API" /\ ~SomeId(constraints, "PERF-001") ->
           <<"API task should have caching strategy (PERF-001)">>
      [] OTHER -> <<>>

\* The try block of executeConstraintCheck once generateTCC has settled as
\* `built` and generateConstraints as `generated`: the exit code, and what the
\* check went through; every exception ends in the catch that returns 1
ConstraintCheck(built, generated, passed, now) ==
  LET violations == checkForViolations(generated.value, built.value) IN
  IF ~built.ok
  THEN [code |-> 1, caught |-> TRUE, passed |-> passed, tcc |-> Undefined,
        violations |-> <<>>]
  ELSE IF ~generated.ok
  THEN [code |-> 1, caught |-> TRUE, passed |-> passed, tcc |-> built.value,
        violations |-> <<>>]
  ELSE IF violations # <<>>
  THEN [code |-> 1, caught |-> FALSE, passed |-> passed, tcc |-> built.value,
        violations |-> violations]
  ELSE [code |-> 0, caught |-> FALSE, passed |-> passed,
        tcc |-> updateTCCWithSystemState(built.value, now).tcc,
        violations |-> violations]

\* executeConstraintCheck: what its promise fulfils with
executeConstraintCheck(taskId, goal, taskType, now, file, store) ==
  LET built == generateTCC(taskId, goal, taskType, Str("user-request"),
                           Str("MEDIUM"), now, file)
  IN ConstraintCheck(built, generateConstraints(built.value, store),
                     [taskId |-> taskId, goal |-> goal, taskType |-> taskType],
                     now)

\* args[i] of JavaScript, counted from 0
At(args, i) == IF i + 1 <= Len(args) THEN args[i + 1] ELSE Undefined

\* The entry code: args = process.argv.slice(2), the switch on args[0], and
\* for `check` the destructuring [,, taskId, goal, taskType] = args.
\* `migrated` is what the evolution manager answers to migrate.
Main(args, now, file, store, migrated) ==
  LET command == At(args, 0)
      NoCheck == [caught |-> FALSE, passed |-> Undefined, tcc |-> Undefined,
                  violations |-> <<>>]
  IN
  CASE command = Str("check") ->
         IF Len(args) # 4 THEN [code |-> 1, ran |-> FALSE] @@ NoCheck
         ELSE [ran |-> TRUE] @@
              executeConstraintCheck(At(args, 2), At(args, 3), At(args, 4),
                                     now, file, store)
    [] command = Str("status") -> [code |-> 0, ran |-> FALSE] @@ NoCheck
    [] command = Str("migrate") ->
         [code |-> IF migrated THEN 0 ELSE 1, ran |-> FALSE] @@ NoCheck
    [] OTHER -> [code |-> 0, ran |-> FALSE] @@ NoCheck

CliArgs ==
  {<<Str("check"), taskId, goal, taskType>> :
     taskId \in TaskIds, goal \in {Padded("g", 0), Padded("g", SizeLimit)},
     taskType \in TaskTypes}
  \cup {<<Str("check"), Str("T-1"), Str("g")>>,
        <<Str("check"), Str("T-1"), Str("a"), Str("goal"), Str("API")>>,
        <<Str("status")>>, <<Str("migrate")>>, <<Str("help")>>, <<>>}

\* one run of the command line, to process.exit
CliRun(args, now, file, store, migrated) ==
  /\ call.op = "none"
  /\ exit = Running
  /\ \E run \in {Main(args, now, file, store, migrated)} :
       /\ exit' = Exited(run.code, "process.exit")
       /\ capsule' = run.tcc
       /\ call' = [op |-> "cli", ok |-> TRUE, now |-> now, updates |-> 0,
                   args |-> args, file |-> file, store |-> store,
                   ran |-> run.ran, caught |-> run.caught,
                   passed |-> run.passed, violations |-> run.violations]
  /\ UNCHANGED <<transport, pool, conns, buffer, nread, received, tasks, stdout,
                 rejections, stdin, disk>>

NextCli ==
  \E args \in CliArgs, now \in 1..MaxClock, file \in GlobalSpecFiles,
     store \in Stores, migrated \in BOOLEAN :
    CliRun(args, now, file, store, migrated)

SpecCli == InitCore /\ [][NextCli]_vars

----------------------------------------------------------------------------
(* Saving and loading specification documents *)

\* a specification written with an optional member left undefined
SparseSpec ==
  [k |-> "object", SOF |-> Str("Maximize(UserValue)"), version |-> Null,
   description |-> Undefined,
   metadata |-> [k |-> "object", owner |-> Undefined,
                 tags |-> List(<<Str("core")>>)]]

SavedDocs == {SpecDoc, GlobalSpec, SparseSpec, EmptyObject, Null, Undefined}

\* saveSpecification(spec, path); the schema describes an object, so only an
\* object passes validation
SaveSpecification(spec, path, valid) ==
  /\ valid => spec.k = "object"
  /\ LET settled == saveSpecification(spec, path, valid) IN
       /\ disk' = IF settled.ok THEN [disk EXCEPT ![path] = settled.file]
                  ELSE disk
       /\ call' = [op |-> "saveSpecification", ok |-> settled.ok, now |-> 0,
                   updates |-> 0, spec |-> spec, path |-> path,
                   valid |-> valid, message |-> settled.message]
  /\ UNCHANGED <<transport, pool, conns, buffer, nread, received, tasks, stdout,
                 rejections, stdin, exit, capsule>>

\* loadSpecification(path)
LoadSpecification(path) ==
  /\ LET settled == loadSpecification(path, disk[path]) IN
       call' = [op |-> "loadSpecification", ok |-> settled.ok, now |-> 0,
                updates |-> 0, path |-> path, result |-> settled.value,
                message |-> settled.message]
  /\ UNCHANGED <<transport, pool, conns, buffer, nread, received, tasks, stdout,
                 rejections, stdin, exit, capsule, disk>>

\* another program replaces or removes the file at a path
PutFile(path, file) ==
  /\ Writable(path)
  /\ disk' = [disk EXCEPT ![path] = file]
  /\ call' = NoCall
  /\ UNCHANGED <<transport, pool, conns, buffer, nread, received, tasks, stdout,
                 rejections, stdin, exit, capsule>>

NextStore ==
  \/ \E spec \in SavedDocs, path \in Paths, valid \in BOOLEAN :
       SaveSpecification(spec, path, valid)
  \/ \E path \in Paths : LoadSpecification(path)
  \/ \E path \in Paths, file \in SpecFiles : PutFile(path, file)

SpecStore == InitCore /\ [][NextStore]_vars

----------------------------------------------------------------------------
(* What the properties below read off a state *)

KnownMethods == {Str("checkConstraints"), Str("getSystemStatus"),
                 Str("getEvolutionStage")}

\* a text is JSON when it holds one document and otherwise white space
IsJSON(text) ==
  \E i \in 1..Len(text) :
    /\ text[i].t = "doc"
    /\ \A j \in 1..Len(text) : j # i => IsSpace(text[j])

\* the envelopes written to stdout for task i, in order
RepliesTo(i) ==
  LET outs == SelectSeq(stdout, LAMBDA o : o.t = "doc" /\ o.task = i)
  IN [j \in 1..Len(outs) |-> outs[j].v]

\* the envelopes written on connection c, in order
RepliesOn(c) ==
  LET bodies == SelectSeq(conns[c].responses, LAMBDA r : r.body # EmptyBody)
  IN [j \in 1..Len(bodies) |-> bodies[j].body]

\* Every request handleMcpRequest was called for, on the transport in use:
\* its record, the envelopes sent in answer, and whether its handler is still
\* suspended in a load
Exchanges ==
  {[cycle |-> conns[c].cycle, replies |-> RepliesOn(c),
    open |-> conns[c].phase \in {"loadSpec", "loadTcc"}] :
     c \in {d \in DOMAIN conns : conns[d].cycle.dispatched}}
  \cup
  {[cycle |-> tasks[i].cycle, replies |-> RepliesTo(i),
    open |-> tasks[i].pc \in {"loadSpec", "loadTcc"}] :
     i \in {j \in 1..Len(tasks) : tasks[j].cycle.dispatched}}

\* every envelope sent so far
Envelopes ==
  UNION {{RepliesOn(c)[j] : j \in 1..Len(RepliesOn(c))} : c \in DOMAIN conns}
  \cup {stdout[j].v : j \in {n \in 1..Len(stdout) : stdout[n].t = "doc"}}

HasId(env) == "id" \in DOMAIN env
WireId(env) == IF HasId(env) THEN env.id ELSE Undefined
IsError(env, code) ==
  /\ DOMAIN env \subseteq {"error", "id"}
  /\ "error" \in DOMAIN env
  /\ env.error.code = code
IsResult(env) ==
  /\ DOMAIN env \subseteq {"result", "id"}
  /\ "result" \in DOMAIN env

\* message holds the pieces of cause, contiguous and in order
Contains(message, cause) ==
  \E n \in 0..Len(message) :
    /\ n + Len(cause) <= Len(message)
    /\ SubSeq(message, n + 1, n + Len(cause)) = cause

IsCheckConstraints(request) ==
  ~Throws(request) /\ Get(request, "method") = Str("checkConstraints")

----------------------------------------------------------------------------
(* Properties *)

\* C1: a request whose method is none of checkConstraints, getSystemStatus,
\* getEvolutionStage is answered, on either transport, by exactly the error
\* -32601 'Method not found', with no result, with the request's id, and with
\* no handler or collaborator called.
MethodNotFound ==
  \A x \in Exchanges :
    LET request == x.cycle.request IN
    (~Throws(request) /\ Get(request, "method") \notin KnownMethods) =>
      /\ Len(x.replies) = 1
      /\ IsError(x.replies[1], -32601)
      /\ x.replies[1].error.message = <<"Method not found">>
      /\ WireId(x.replies[1]) = Get(request, "id")
      /\ x.cycle.calls = <<>>
      /\ x.cycle.specLoad = Undefined /\ x.cycle.tccLoad = Undefined
      /\ x.cycle.generated = Undefined

MethodNotFoundWitness ==
  \E x \in Exchanges :
    /\ x.cycle.request.k = "object"
    /\ Get(x.cycle.request, "method") = Str("unknownMethod")
    /\ Get(x.cycle.request, "id") = Str("1")
    /\ Len(x.replies) = 1
    /\ IsError(x.replies[1], -32601)
    /\ WireId(x.replies[1]) = Str("1")

\* C2: a checkConstraints request whose tccPath or specPath is missing or
\* empty, a request without any params included, is answered by the error
\* -32602 whose message contains 'Missing required parameters', with the
\* request's id, and no document is loaded.
MissingParameters ==
  \A x \in Exchanges :
    LET request == x.cycle.request
        params == Get(request, "params")
    IN
    (/\ IsCheckConstraints(request)
     /\ \/ params = Undefined
        \/ /\ params.k = "object"
           /\ \/ Get(params, "tccPath") \in {Undefined, Str("")}
              \/ Get(params, "specPath") \in {Undefined, Str("")}) =>
      /\ Len(x.replies) = 1
      /\ IsError(x.replies[1], -32602)
      /\ Contains(x.replies[1].error.message, <<"Missing required parameters">>)
      /\ WireId(x.replies[1]) = Get(request, "id")
      /\ x.cycle.specLoad = Undefined /\ x.cycle.tccLoad = Undefined

\* the envelope both transports send for a text JSON.parse rejects
ParseErrorEnvelope ==
  [error |-> [code |-> -32700, message |-> <<"Parse error">>],
   id |-> Str("parse-error")]

\* C3: a POST body (transport A), or a non-blank complete line (transport B),
\* that is not JSON is answered by the error -32700 'Parse error' with the id
\* 'parse-error', and handleMcpRequest is not called for it.
ParseError ==
  [][/\ \A c \in Conns :
          (/\ conns[c].phase = "reading"
           /\ conns'[c].phase # "reading"
           /\ ~IsJSON(conns[c].body)) =>
            /\ conns'[c].phase = "done"
            /\ Len(conns'[c].responses) = 1
            /\ conns'[c].responses[1].body = ParseErrorEnvelope
            /\ ~conns'[c].cycle.dispatched
            /\ conns'[c].cycle.calls = <<>>
     /\ \A i \in 1..Len(tasks') :
          ~IsJSON(tasks'[i].line) =>
            /\ ~tasks'[i].cycle.dispatched
            /\ tasks'[i].cycle.calls = <<>>
            /\ RepliesTo(i)' = <<ParseErrorEnvelope>>]_vars

ParseErrorWitness ==
  \/ \E c \in Conns :
       /\ conns[c].verb = "POST"
       /\ conns[c].phase = "done"
       /\ ~conns[c].cycle.dispatched
       /\ RepliesOn(c) = <<ParseErrorEnvelope>>
  \/ \E i \in 1..Len(tasks) :
       /\ Len(tasks[i].line) = 2
       /\ ~IsJSON(tasks[i].line)
       /\ RepliesTo(i) = <<ParseErrorEnvelope>>

\* C4: when generateConstraints fails for the loaded TCC, checkConstraints is
\* answered by the error -32003 whose message contains the cause, with the
\* request's id, and by no success result.
GenerationFailure ==
  \A x \in Exchanges :
    (x.cycle.generated # Undefined /\ ~x.cycle.generated.ok) =>
      /\ Len(x.replies) = 1
      /\ IsError(x.replies[1], -32003)
      /\ Contains(x.replies[1].error.message, x.cycle.generated.message)
      /\ WireId(x.replies[1]) = Get(x.cycle.request, "id")

\* exchange x ended in the one error `code` that wraps the cause of the failed
\* load, and generation never started
LoadFailureAnswer(x, loaded, code) ==
  /\ ~x.open
  /\ Len(x.replies) = 1
  /\ IsError(x.replies[1], code)
  /\ Contains(x.replies[1].error.message, loaded.message)
  /\ WireId(x.replies[1]) = Get(x.cycle.request, "id")
  /\ \A n \in 1..Len(x.cycle.calls) : x.cycle.calls[n] # "generateConstraints"
  /\ x.cycle.generated = Undefined
  /\ ~x.cycle.pending

\* C5: a failed load of the specification is answered by -32001, a failed
\* load of the TCC (the specification having loaded) by -32002; the message
\* contains the cause, the id is the request's, and generateConstraints is not
\* called.
LoadFailures ==
  \A x \in Exchanges :
    /\ (x.cycle.specLoad # Undefined /\ ~x.cycle.specLoad.ok) =>
         /\ LoadFailureAnswer(x, x.cycle.specLoad, -32001)
         /\ x.cycle.tccLoad = Undefined
    /\ (x.cycle.tccLoad # Undefined /\ ~x.cycle.tccLoad.ok) =>
         /\ LoadFailureAnswer(x, x.cycle.tccLoad, -32002)
         /\ x.cycle.specLoad.ok

LoadFailuresWitness ==
  \E x \in Exchanges :
    /\ x.cycle.tccLoad # Undefined
    /\ ~x.cycle.tccLoad.ok
    /\ Get(x.cycle.request, "id") = Str("1")
    /\ Len(x.replies) = 1
    /\ IsError(x.replies[1], -32002)

\* C6: a successful checkConstraints carries, as result.constraints, exactly
\* the list generateConstraints produces for the loaded TCC, and the request's
\* id.
ConstraintsReturned ==
  \A x \in Exchanges :
    (/\ IsCheckConstraints(x.cycle.request)
     /\ Len(x.replies) = 1
     /\ IsResult(x.replies[1])) =>
      /\ x.cycle.generated.ok
      /\ x.replies[1].result.constraints = x.cycle.generated.value
      /\ WireId(x.replies[1]) = Get(x.cycle.request, "id")

\* C7: every envelope sent holds exactly one of result and error, and an id;
\* an error holds a numeric code and a message.
EnvelopeShape ==
  \A env \in Envelopes :
    /\ DOMAIN env \subseteq {"result", "error", "id"}
    /\ ("result" \in DOMAIN env) # ("error" \in DOMAIN env)
    /\ HasId(env)
    /\ "error" \in DOMAIN env =>
         /\ DOMAIN env.error = {"code", "message"}
         /\ env.error.code \in Int
         /\ env.error.message # <<>>

\* the parsed requests on which dispatch raises a TypeError: null, whose
\* method cannot be read, and a checkConstraints whose params cannot be
\* destructured
Unanticipated(request) ==
  \/ Throws(request)
  \/ IsCheckConstraints(request) /\ Throws(Get(request, "params"))

\* C8: an exception in the dispatch of a parsed request that is none of the
\* anticipated failures is answered by the error -32603, with the request's id
\* when there is one and a sentinel id otherwise.
InternalError ==
  \A x \in Exchanges :
    LET request == x.cycle.request IN
    Unanticipated(request) =>
      /\ Len(x.replies) = 1
      /\ IsError(x.replies[1], -32603)
      /\ HasId(x.replies[1])
      /\ (~Throws(request) /\ Get(request, "id") # Undefined) =>
           x.replies[1].id = Get(request, "id")

\* C9: every request handed to the dispatcher ends in a response envelope; no
\* rejection escapes the transport's handler.
NothingEscapes ==
  /\ rejections = {}
  /\ \A x \in Exchanges : x.open \/ Len(x.replies) = 1

\* C10: the violations list of every successful checkConstraints response is
\* empty.
NoViolations ==
  \A x \in Exchanges :
    \A n \in 1..Len(x.replies) :
      (IsCheckConstraints(x.cycle.request) /\ IsResult(x.replies[n])) =>
        /\ x.replies[n].result.violations.k = "array"
        /\ x.replies[n].result.violations.items = <<>>

NoViolationsWitness ==
  \E x \in Exchanges :
    /\ IsCheckConstraints(x.cycle.request)
    /\ x.cycle.tccLoad # Undefined
    /\ x.cycle.tccLoad.ok
    /\ Len(x.replies) = 1
    /\ IsResult(x.replies[1])
    /\ x.replies[1].result.violations = List(<<>>)

\* the static descriptor getEvolutionStage returns
EvolutionStageDescriptor ==
  [currentStage |-> Str("MVP"),
   description |-> Str("Minimum Viable Product - Core functionality implemented"),
   capabilities |-> List(<<Str("Basic constraint generation"),
                           Str("Task Context Capsule support"),
                           Str("MCP integration"), Str("CLI interface")>>)]

\* C11: a getSystemStatus request, whatever its params and whatever came
\* before it, is answered by one result with status 'running' and version
\* '1.0.0'; a getEvolutionStage request by one result holding the static
\* descriptor (currentStage 'MVP' and the four fixed capabilities); neither is
\* ever answered by an error, and the response id is the request's.
StatusAndStage ==
  \A x \in Exchanges :
    LET request == x.cycle.request
        method == IF Throws(request) THEN Undefined ELSE Get(request, "method")
    IN
    /\ method = Str("getSystemStatus") =>
         /\ Len(x.replies) = 1
         /\ IsResult(x.replies[1])
         /\ x.replies[1].result.status = Str("running")
         /\ x.replies[1].result.version = Str("1.0.0")
         /\ x.replies[1].result.uptime = Num
         /\ WireId(x.replies[1]) = Get(request, "id")
    /\ method = Str("getEvolutionStage") =>
         /\ Len(x.replies) = 1
         /\ IsResult(x.replies[1])
         /\ \A f \in DOMAIN EvolutionStageDescriptor :
              x.replies[1].result[f] = EvolutionStageDescriptor[f]
         /\ WireId(x.replies[1]) = Get(request, "id")

\* a getSystemStatus with params has been answered after an earlier request
StatusAndStageWitness ==
  \/ \E c \in DOMAIN conns :
       /\ conns[c].cycle.dispatched
       /\ Get(conns[c].cycle.request, "method") = Str("getSystemStatus")
       /\ Get(conns[c].cycle.request, "params") # Undefined
       /\ Len(RepliesOn(c)) = 1
       /\ IsResult(RepliesOn(c)[1])
       /\ WireId(RepliesOn(c)[1]) = Str("1")
  \/ \E i \in 2..Len(tasks) :
       /\ tasks[i].cycle.dispatched
       /\ Get(tasks[i].cycle.request, "method") = Str("getEvolutionStage")
       /\ Len(RepliesTo(i)) = 1
       /\ Get(tasks[i].cycle.request, "params") # Undefined
       /\ IsResult(RepliesTo(i)[1])
       /\ WireId(RepliesTo(i)[1]) = Str("1")

\* C12: on transport A an OPTIONS request is answered by status 204 with an
\* empty body and the headers Access-Control-Allow-Origin '*' and
\* Access-Control-Allow-Methods 'POST, GET, OPTIONS'; no body is read and
\* handleMcpRequest is not called.
Preflight ==
  \A c \in DOMAIN conns :
    conns[c].verb = "OPTIONS" =>
      /\ conns[c].phase = "done"
      /\ Len(conns[c].responses) = 1
      /\ conns[c].responses[1].status = 204
      /\ conns[c].responses[1].body = EmptyBody
      /\ conns[c].responses[1].allowOrigin = "*"
      /\ conns[c].responses[1].allowMethods = "POST, GET, OPTIONS"
      /\ conns[c].body = <<>>
      /\ ~conns[c].cycle.dispatched
      /\ conns[c].cycle.calls = <<>>

PreflightWitness ==
  \E c \in DOMAIN conns :
    /\ conns[c].verb = "OPTIONS"
    /\ Len(conns[c].responses) = 1
    /\ conns[c].responses[1].status = 204

\* C13: on transport A a request whose verb is neither POST nor OPTIONS is
\* answered by status 200 and the body {error: {code: -32600, message:
\* 'Method not allowed'}, id: 'method-not-allowed'}; its body is not read or
\* parsed and no handler runs.
MethodNotAllowed ==
  \A c \in DOMAIN conns :
    conns[c].verb \notin {"", "POST", "OPTIONS"} =>
      /\ conns[c].phase = "done"
      /\ Len(conns[c].responses) = 1
      /\ conns[c].responses[1].status = 200
      /\ conns[c].responses[1].body =
           [error |-> [code |-> -32600, message |-> <<"Method not allowed">>],
            id |-> Str("method-not-allowed")]
      /\ conns[c].body = <<>>
      /\ ~conns[c].cycle.dispatched
      /\ conns[c].cycle.calls = <<>>

MethodNotAllowedWitness ==
  \E c \in DOMAIN conns :
    /\ conns[c].verb = "PUT"
    /\ Len(conns[c].responses) = 1
    /\ IsError(conns[c].responses[1].body, -32600)

\* C14: on transport A every response to a POST has status 200 and
\* Content-Type application/json (and Access-Control-Allow-Origin '*'),
\* whether its envelope holds a result or an error of any code.
PostStatus ==
  \A c \in DOMAIN conns :
    conns[c].verb = "POST" =>
      \A n \in 1..Len(conns[c].responses) :
        /\ conns[c].responses[n].status = 200
        /\ conns[c].responses[n].contentType = "application/json"
        /\ conns[c].responses[n].allowOrigin = "*"
        /\ conns[c].responses[n].body # EmptyBody

\* a POST answered by the error -32602 with status 200
PostStatusWitness ==
  \E c \in DOMAIN conns :
    /\ conns[c].verb = "POST"
    /\ Len(conns[c].responses) = 1
    /\ conns[c].responses[1].status = 200
    /\ IsError(conns[c].responses[1].body, -32602)

\* the envelopes written to stdout in answer to lines, in order
LineReplies == SelectSeq(stdout, LAMBDA o : o.t = "doc" /\ o.task # 0)

\* C15: on transport B every complete line that is not blank is answered by
\* exactly one response line once its handler is through (none while the
\* handler is suspended in a load), whatever JSON value the line denotes, and
\* blank lines are answered by nothing: there are no more response lines than
\* non-blank lines.
OneResponsePerLine ==
  /\ \A i \in 1..Len(tasks) :
       Len(RepliesTo(i)) = IF tasks[i].pc \in {"loadSpec", "loadTcc"} THEN 0 ELSE 1
  /\ exit = Running => Len(LineReplies) <= Len(tasks)

\* C16: on transport B neither the end of stdin nor a stdin error stops the
\* server: the step that closes stdin leaves the process running, and the
\* process exits only by the SIGINT handler, with code 0.
OnlySigintTerminates ==
  [][/\ stdin' # stdin => exit' = Running
     /\ exit' # exit => (exit' = Exited(0, "SIGINT") /\ stdin' = stdin)]_vars

\* where in stdout the response to task i stands
PosOf(i) == CHOOSE n \in 1..Len(stdout) : stdout[n].t = "doc" /\ stdout[n].task = i
Answered(i) == \E n \in 1..Len(stdout) : stdout[n].t = "doc" /\ stdout[n].task = i

\* C17: on transport B a line is dispatched without waiting for the response
\* to the line before it, so responses are written in the order the handlers
\* finish: the response to a later line precedes the response to an earlier
\* one only when the earlier line's handler was awaited (its method is one of
\* the three known ones), and such an execution exists (the witness).
Overtaking ==
  \A i, j \in 1..Len(tasks) :
    (i < j /\ Answered(i) /\ Answered(j) /\ PosOf(j) < PosOf(i)) =>
      /\ tasks[i].cycle.dispatched
      /\ ~Throws(tasks[i].cycle.request)
      /\ Get(tasks[i].cycle.request, "method") \in KnownMethods

\* a checkConstraints line was read first and suspended in a load, a
\* getSystemStatus line was read second, and the responses were written second
\* line first
OvertakingWitness ==
  \E i, j \in 1..Len(tasks) :
    /\ i < j
    /\ IsCheckConstraints(tasks[i].cycle.request)
    /\ tasks[i].cycle.specLoad # Undefined
    /\ Get(tasks[j].cycle.request, "method") = Str("getSystemStatus")
    /\ Answered(i) /\ Answered(j)
    /\ PosOf(j) < PosOf(i)

\* C18: on transport B everything written to stdout is a sequence of whole
\* response envelopes, each followed by one newline, and nothing else.
ProtocolStream ==
  /\ Len(stdout) % 2 = 0
  /\ \A n \in 1..Len(stdout) :
       IF n % 2 = 1
       THEN /\ stdout[n].t = "doc"
            /\ DOMAIN stdout[n].v \subseteq {"result", "error", "id"}
            /\ ("result" \in DOMAIN stdout[n].v) # ("error" \in DOMAIN stdout[n].v)
       ELSE stdout[n] = NL

\* the response to a line and the envelope of the stdin error handler have
\* both been written
ProtocolStreamWitness ==
  /\ Len(stdout) = 4
  /\ stdout[1].task = 1
  /\ stdout[3].task = 0
  /\ IsError(stdout[3].v, -32603)

\* What transport A sends for a request, given how the loads and the
\* generation settled for it: handleMcpRequest run to its end, and the end
\* handler's catch for a rejection
DispatchA(cycle) ==
  LET request == cycle.request
      entry == handleMcpRequest(request)
      spec == handleCheckConstraintsSpec(request, cycle.specLoad, entry.calls)
      tcc == handleCheckConstraintsTcc(request, cycle.tccLoad, cycle.generated,
                                       spec.calls)
      response == IF entry.k = "reject" THEN ParseErrorResponse
                  ELSE IF entry.k = "return" THEN entry.response
                  ELSE IF spec.k = "return" THEN spec.response
                  ELSE tcc.response
  IN <<JSONstringify(response)>>

\* What transport B writes for a line that parsed to `request`, likewise
DispatchB(cycle) ==
  LET request == cycle.request
      entry == stdioHandleMcpRequest(request)
      spec == stdioHandleCheckConstraintsSpec(request, cycle.specLoad, entry.calls)
      tcc == stdioHandleCheckConstraintsTcc(request, cycle.tccLoad,
                                            cycle.generated, spec.calls)
  IN IF entry.k = "reject" THEN <<>>
     ELSE IF entry.k = "return" THEN <<JSONstringify(entry.response)>>
     ELSE IF spec.k = "return" THEN <<JSONstringify(spec.response)>>
     ELSE <<JSONstringify(tcc.response)>>

\* a connection whose request has arrived and is not answered yet
InFlight(conn) == conn.phase \in {"reading", "loadSpec", "loadTcc"}

\* C19: on transport A overlapping requests are independent.  A step of one
\* connection leaves every other connection as it is (so a body grows by its
\* own chunks only); a request is answered by what it would be answered if it
\* were alone; and no request is left unanswered by what another request does
\* to the process.
Independent ==
  [][/\ \A c, d \in DOMAIN conns :
          (c # d /\ conns'[c] # conns[c]) => conns'[d] = conns[d]
     /\ \A c \in DOMAIN conns :
          (conns'[c].cycle.dispatched /\ conns'[c].phase = "done") =>
            RepliesOn(c)' = DispatchA(conns'[c].cycle)
     /\ exit' # Running => \A c \in DOMAIN conns : ~InFlight(conns'[c])]_vars

\* C20: both transports dispatch alike: a request that parsed as JSON and
\* whose handler is through was answered on this transport by what the other
\* transport sends for the same request and the same outcomes of the loads and
\* the generation.
TransportsAgree ==
  \A x \in Exchanges :
    ~x.open =>
      x.replies = IF transport = "A" THEN DispatchB(x.cycle)
                  ELSE DispatchA(x.cycle)

----------------------------------------------------------------------------
(* Properties of the TCC builder *)

\* the last call was generateTCC and it returned a TCC
Generated == call.op = "generateTCC" /\ call.ok
\* the global specification loaded during the last generateTCC
GlobalLoaded == loadSpecification(GlobalSpecPath, call.file).ok
\* what the loaded specification's metadata holds for the call's task type
Contribution ==
  OptionalGet(OptionalGet(OptionalGet(JSONparse(call.file.data).value, "metadata"),
                          "taskConstraints"), call.taskType.s)
Relevant(tcc) == tcc.context.relevantConstraints
InLookupTable(taskType) ==
  ToUpperCase(taskType.s) \in {"FINANCIAL", "AUTHENTICATION", "API", "DATABASE"}

\* C21, as stated: for every taskType whose uppercased form is not in the
\* lookup table, the TCC generateTCC returns has relevantConstraints equal to
\* exactly [SEC-001]
DefaultConstraints ==
  (Generated /\ ~InLookupTable(call.taskType)) =>
    Relevant(capsule) = List(<<Str("SEC-001")>>)

\* C21, amended: for every such taskType, when the global specification
\* loads and its metadata names no constraints for that taskType, the TCC
\* returned has relevantConstraints equal to exactly [SEC-001]; when the
\* metadata names some, SEC-001 comes first and the named ones follow
DefaultConstraintsWhenLoaded ==
  (Generated /\ ~InLookupTable(call.taskType) /\ GlobalLoaded) =>
    /\ Contribution = Undefined => Relevant(capsule) = List(<<Str("SEC-001")>>)
    /\ Contribution.k = "array" =>
         /\ Relevant(capsule).items[1] = Str("SEC-001")
         /\ \A i \in 1..Len(Contribution.items) :
              Includes(Relevant(capsule), Contribution.items[i])

DefaultConstraintsWitness ==
  /\ Generated
  /\ call.taskType = Str("custom")
  /\ GlobalLoaded
  /\ Contribution = Undefined
  /\ Relevant(capsule) = List(<<Str("SEC-001")>>)

NoDuplicates(list) ==
  \A i, j \in 1..Len(list.items) : list.items[i] = list.items[j] => i = j

LoadFailureDegrades ==
  (call.op = "generateTCC" /\ ~GlobalLoaded) =>
    /\ Relevant(call.built) = List(<<>>)
    /\ call.ok <=> call.byteSize < 10240
    /\ call.ok => capsule = call.built

LoadFailureDegradesWitness ==
  /\ Generated
  /\ ~GlobalLoaded
  /\ call.taskType = Str("FINANCIAL")
  /\ Relevant(capsule) = List(<<>>)

\* C24: generateTCC fails, with an error naming the size limit, exactly when
\* the TCC it built measures 10240 bytes or more; a TCC it returns has size
\* below 10240
SizeLimitEnforced ==
  call.op = "generateTCC" =>
    /\ ~call.ok <=> call.byteSize >= 10240
    /\ ~call.ok =>
         /\ capsule = Undefined
         /\ call.message = <<"Failed to generate TCC: ", "TCC size exceeds limit: ",
                             ToString(call.byteSize), " bytes">>
    /\ call.ok => capsule.size.n < 10240 /\ capsule.size.n = call.byteSize

SizeLimitEnforcedWitness ==
  /\ call.op = "generateTCC"
  /\ ~call.ok
  /\ call.byteSize = 10240

\* the last call returned or changed a TCC
Built ==
  \/ call.op \in {"createTCC", "generateTCC"} /\ call.ok
  \/ call.op = "updateTCCWithSystemState" /\ call.updated

\* C25: no call of createTCC, generateTCC or updateTCCWithSystemState
\* returns or leaves behind a TCC whose size is 10240 or more
UnderSizeLimit == Built => capsule.size.n < 10240

\* C26: after createTCC, generateTCC and updateTCCWithSystemState the size
\* of the TCC equals the byte length of its serialized form as it stands
SizeIsByteLength == Built => capsule.size.n = ByteLength(capsule)

\* C27: updateTCCWithSystemState always fulfils; when it ran to its end the
\* system state is the snapshot, creationTime is the time of the call, size
\* is the measure taken of the refreshed TCC, and taskId, goal, taskType,
\* relevantConstraints, source, priority and version are as before
RefreshIsBestEffort ==
  call.op = "updateTCCWithSystemState" =>
    /\ call.ok
    /\ ~call.updated => capsule = call.before
    /\ call.updated =>
         LET old == call.before.context
             new == capsule.context
         IN
         /\ new.systemState.loadLevel = Str("MED")
         /\ new.systemState.dependencies =
              List(<<Str("core-service"), Str("database")>>)
         /\ new.systemState.resourceAvailability =
              [k |-> "object", cpu |-> Number(50), memory |-> Number(50),
               network |-> Number(50)]
         /\ new.systemState.environment = Str("DEVELOPMENT")
         /\ new.creationTime = Time(call.now)
         /\ capsule.size.n =
              ByteLength([f \in DOMAIN capsule |->
                            IF f = "size" THEN Get(call.before, "size")
                            ELSE capsule[f]])
         /\ \A f \in {"taskId", "goal", "taskType", "version"} :
              Get(capsule, f) = Get(call.before, f)
         /\ \A f \in {"relevantConstraints", "source", "priority"} :
              Get(new, f) = Get(old, f)

RefreshIsBestEffortWitness ==
  /\ call.op = "updateTCCWithSystemState"
  /\ call.updated
  /\ "taskType" \in DOMAIN call.before
  /\ call.before.context.systemState.dependencies = List(<<>>)
  /\ Relevant(call.before) # List(<<>>)
  /\ call.before.context.creationTime # Time(call.now)
  /\ call.before.size # capsule.size

----------------------------------------------------------------------------
(* Properties of the template store *)

Matched == call.op = "matchTemplates"

\* a .json entry that parses to a record with a list of applicable tasks
WellFormed(entry) ==
  /\ entry.json
  /\ JSONparse(entry.data).ok
  /\ Get(JSONparse(entry.data).value, "applicableTasks").k = "array"

Applies(entry, taskType) ==
  /\ WellFormed(entry)
  /\ LET applicable == JSONparse(entry.data).value.applicableTasks IN
       \E i \in 1..Len(applicable.items) : applicable.items[i] \in {taskType, Str("ALL")}

\* the applicable templates of one partition, in store order
Applicable(dir, taskType) ==
  IF ~dir.readable THEN <<>>
  ELSE LET chosen == SelectSeq(dir.files, LAMBDA entry : Applies(entry, taskType))
       IN [i \in 1..Len(chosen) |-> JSONparse(chosen[i].data).value]

\* C28: matchTemplates returns exactly the readable templates whose
\* applicableTasks contains taskType or ALL, in partition order and store
\* order within a partition, duplicates included
MatchedTemplates ==
  Matched =>
    /\ call.ok
    /\ call.result = Applicable(call.store[1], call.taskType)
                       \o Applicable(call.store[2], call.taskType)
                       \o Applicable(call.store[3], call.taskType)

\* the store with every unreadable partition replaced by an empty one
WithoutUnreadable(store) ==
  [p \in DOMAIN store |-> IF store[p].readable THEN store[p] ELSE Dir(TRUE, <<>>)]

\* C29: a partition that cannot be read is skipped without error:
\* matchTemplates does not fail and returns what the other partitions
\* yield, in order
UnreadableSkipped ==
  Matched =>
    /\ call.ok
    /\ call.result = matchTemplates(call.taskType, WithoutUnreadable(call.store))

UnreadableSkippedWitness ==
  /\ Matched
  /\ ~call.store[1].readable
  /\ Applicable(call.store[2], call.taskType) # <<>>
  /\ Applicable(call.store[3], call.taskType) # <<>>
  /\ call.result = Applicable(call.store[2], call.taskType)
                     \o Applicable(call.store[3], call.taskType)

\* C30: a malformed template record fails only itself: every well-formed
\* applicable template of a readable partition is in the result
MalformedFailsOnlyItself ==
  Matched =>
    \A p \in 1..3 :
      \A i \in 1..Len(Applicable(call.store[p], call.taskType)) :
        \E n \in 1..Len(call.result) :
          call.result[n] = Applicable(call.store[p], call.taskType)[i]

----------------------------------------------------------------------------
(* Properties of the constraint generator, the CLI and the specification *)
(* service                                                              *)

ConstraintFields ==
  {"id", "name", "category", "description", "rule", "applicableTasks", "severity"}

\* C31: generateConstraints returns the matched templates copied field for
\* field in matchTemplates order, followed by one synthesized constraint per
\* entry of relevantConstraints in that list's order; the length is the sum
\* of the two
GeneratedConstraints ==
  (call.op = "generateConstraints" /\ call.ok) =>
    LET taskType == call.tcc.taskType
        templates == matchTemplates(taskType, call.store)
        relevant == call.tcc.context.relevantConstraints.items
        out == call.result.items
    IN
    /\ Len(out) = Len(templates) + Len(relevant)
    /\ \A i \in 1..Len(templates) :
         \A f \in ConstraintFields : out[i][f] = templates[i][f]
    /\ \A j \in 1..Len(relevant) :
         LET made == out[Len(templates) + j] IN
         /\ made.id = relevant[j] /\ made.name = relevant[j]
         /\ made.category = Str("OTHER")
         /\ made.severity = Str("WARNING")
         /\ made.rule = [k |-> "concat", parts |-> <<Str("context."), relevant[j]>>]
         /\ made.applicableTasks = List(<<taskType>>)

\* a template and a context entry with the same id: the id appears twice
GeneratedConstraintsWitness ==
  /\ call.op = "generateConstraints"
  /\ call.ok
  /\ Len(call.tcc.context.relevantConstraints.items) = 2
  /\ \E i, j \in 1..Len(call.result.items) :
       /\ i < j
       /\ call.result.items[i].id = call.result.items[j].id
       /\ call.result.items[i].category = Str("SECURITY")
       /\ call.result.items[j].category = Str("OTHER")

\* what the check comes to for a task: the violations found, and whether a
\* step threw
CheckOf(taskId, goal, taskType) ==
  executeConstraintCheck(taskId, goal, taskType, call.now, call.file, call.store)

\* C32: check <taskId> <goal> <taskType> runs the constraint check with its
\* first, second and third positional arguments as taskId, goal and
\* taskType, and exits with 0 when that check finds no violations and with 1
\* when it finds violations or a step throws
CliCheck ==
  (call.op = "cli" /\ At(call.args, 0) = Str("check") /\ Len(call.args) = 4) =>
    /\ call.ran
    /\ call.passed = [taskId |-> call.args[2], goal |-> call.args[3],
                      taskType |-> call.args[4]]
    /\ LET check == CheckOf(call.args[2], call.args[3], call.args[4]) IN
       exit = Exited(IF check.violations = <<>> /\ ~check.caught THEN 0 ELSE 1,
                     "process.exit")

\* a document without its undefined members, which an equality of
\* documents ignores
RECURSIVE Defined(_)
Defined(v) ==
  CASE v.k = "object" ->
         [f \in {g \in DOMAIN v : g = "k" \/ v[g] # Undefined} |->
            IF f = "k" THEN v[f] ELSE Defined(v[f])]
    [] v.k = "array" -> List([i \in 1..Len(v.items) |-> Defined(v.items[i])])
    [] OTHER -> v

ToEqual(a, b) == Defined(a) = Defined(b)

----------------------------------------------------------------------------
(* Properties of the framing and of the exchanges *)

\* the lines of a text that a newline ends, in order, and what follows the
\* last newline
Newlines(text) == {i \in 1..Len(text) : text[i] = NL}
CompleteLines(text) ==
  LET ends == Newlines(text)
      end(j) == CHOOSE i \in ends : Cardinality({p \in ends : p < i}) = j - 1
  IN [j \in 1..Cardinality(ends) |->
        SubSeq(text, IF j = 1 THEN 1 ELSE end(j - 1) + 1, end(j) - 1)]
Unterminated(text) ==
  LET ends == Newlines(text) \cup {0}
      last == CHOOSE i \in ends : \A p \in ends : p <= i
  IN SubSeq(text, last + 1, Len(text))

RECURSIVE NonBlank(_)
NonBlank(lines) ==
  IF lines = <<>> THEN <<>>
  ELSE IF \A i \in 1..Len(Head(lines)) : IsSpace(Head(lines)[i])
       THEN NonBlank(Tail(lines))
       ELSE <<Head(lines)>> \o NonBlank(Tail(lines))

\* the lines handed on so far, oldest first
LinesOf(started) == [i \in 1..Len(started) |-> started[i].line]

\* C34: on transport B, while the process runs, the lines handed on are the
\* non-blank lines that a newline ends in the concatenation of the input
\* received so far, in order and once each, however the input was chunked;
\* the buffer holds no newline, and until the input ends it is what follows
\* the last newline; the end of the input hands on nothing
Framing ==
  (transport = "B" /\ exit = Running) =>
    /\ LinesOf(tasks) = NonBlank(CompleteLines(received))
    /\ Newlines(buffer) = {}
    /\ stdin = "open" => buffer = Unterminated(received)

\* a line that with its newline is longer than a chunk, so that it came in
\* pieces, was handed on once and answered before stdin ended
FramingWitness ==
  /\ transport = "B" /\ exit = Running /\ stdin = "ended"
  /\ Len(received) > MaxChunkLen
  /\ Len(tasks) = 1
  /\ Len(tasks[1].line) = MaxChunkLen
  /\ JSONparse(tasks[1].line).ok
  /\ stdout # <<>>

\* C35: on transport A every POST whose body was fully received gets
\* exactly one response: no exchange ever holds a second response, an
\* exchange that is through holds one, and the process never ends while a
\* fully received POST waits for its answer, which it would then never get
AnsweredOnce ==
  transport = "A" =>
    \A c \in DOMAIN conns :
      /\ Len(conns[c].responses) <= 1
      /\ conns[c].phase = "done" => Len(conns[c].responses) = 1
      /\ exit # Running => conns[c].phase \notin {"loadSpec", "loadTcc"}

\* the steps of checkConstraints in their order
CheckSteps ==
  <<"handleCheckConstraints", "loadSpecification(specPath)",
    "loadSpecification(tccPath)", "generateConstraints">>

AnsweredBy(x, code) == Len(x.replies) = 1 /\ IsError(x.replies[1], code)

\* C36: checkConstraints validates its parameters, loads specPath, loads
\* tccPath and generates the constraints, in this order, and stops at the
\* first step that fails: the answer carries the code of that step (-32602,
\* -32001, -32002, -32003) and no later step is attempted
StepsInOrder ==
  \A x \in Exchanges :
    LET request == x.cycle.request
        params == Get(request, "params")
        invalid ==
          \/ params = Undefined
          \/ /\ params.k = "object"
             /\ \/ Get(params, "tccPath") \in {Undefined, Str("")}
                \/ Get(params, "specPath") \in {Undefined, Str("")}
        failed(step) == step # Undefined /\ ~step.ok
    IN
    IsCheckConstraints(request) =>
      /\ x.cycle.calls = SubSeq(CheckSteps, 1, Len(x.cycle.calls))
      /\ invalid =>
           /\ AnsweredBy(x, -32602)
           /\ x.cycle.calls = <<"handleCheckConstraints">>
      /\ failed(x.cycle.specLoad) =>
           /\ AnsweredBy(x, -32001)
           /\ x.cycle.calls = SubSeq(CheckSteps, 1, 2)
      /\ failed(x.cycle.tccLoad) =>
           /\ AnsweredBy(x, -32002)
           /\ x.cycle.calls = SubSeq(CheckSteps, 1, 3)
      /\ failed(x.cycle.generated) => AnsweredBy(x, -32003)

\* C37: on transport A a body that is JSON, whatever value it denotes, is
\* handed to the dispatcher, and the request is never answered by the parse
\* error -32700
ParseErrorOnlyForText ==
  [][\A c \in DOMAIN conns :
       /\ (/\ conns[c].phase = "reading"
           /\ conns'[c].phase # "reading"
           /\ IsJSON(conns[c].body)) => conns'[c].cycle.dispatched
       /\ conns'[c].cycle.dispatched =>
            \A j \in 1..Len(RepliesOn(c)') :
              ~IsError(RepliesOn(c)'[j], -32700)]_vars

\* what the transport in use answers for a request and its outcomes
Dispatch(cycle) == IF transport = "A" THEN DispatchA(cycle) ELSE DispatchB(cycle)

\* the exchanges of checkConstraints that ended in a result
Successful ==
  {x \in Exchanges : /\ IsCheckConstraints(x.cycle.request)
                     /\ Len(x.replies) = 1
                     /\ IsResult(x.replies[1])}

\* C38: a checkConstraints that succeeded would have been answered with the
\* same constraints and the same, empty, violations had any other loadable
\* specification document been found at specPath, the TCC and the template
\* store being the same
SpecByLoadingOnly ==
  \A x \in Successful :
    /\ x.cycle.specLoad.ok
    /\ x.replies[1].result.violations = List(<<>>)
    /\ \A file \in SpecFiles :
         LET other == loadSpecification(
                        PathText(x.cycle.request.params.specPath), file)
             replies == Dispatch([x.cycle EXCEPT !.specLoad = other])
         IN other.ok =>
              /\ Len(replies) = 1
              /\ IsResult(replies[1])
              /\ replies[1].result.constraints = x.replies[1].result.constraints
              /\ replies[1].result.violations = x.replies[1].result.violations

\* a checkConstraints succeeded with the second specification document
SpecByLoadingOnlyWitness ==
  \E x \in Successful :
    /\ x.cycle.specLoad.value # SpecDoc
    /\ x.cycle.tccLoad.value = TccDoc("FINANCIAL", <<Str("SEC-002")>>)
    /\ x.cycle.generated.ok

====
